---------------------------- MODULE Spec2Model ----------------------------
(***************************************************************************)
(* A model of the Idyllium front end: the lexer (lexer.py), the parser     *)
(* (parser.py) and the semantic analyzer (analyzer.py).  Each stage is a   *)
(* state machine of its own; SpecAnalyzer, SpecParser and SpecLexer run    *)
(* one stage each while the other two stay idle.                           *)
(***************************************************************************)
EXTENDS Integers, Sequences, FiniteSets, TLC

VARIABLES
    \* --- SemanticAnalyzer (analyzer.py) ---
    a_pc,        \* "idle" | "walking" | "returned" | "raised"
    program,     \* the Program handed to analyze
    modules,     \* self.modules
    variables,   \* self.variables: name -> type_name
    errors,      \* self.errors
    todo,        \* statements still to be visited (the pending visit_stmt calls)
    visited,     \* history: the statements visit_stmt was called on, in order
    last,        \* history: what the last visit_stmt call did
    raised,      \* the SemanticError analyze raised
    \* --- Lexer (lexer.py) ---
    l_pc,        \* "idle" | "scanning" | "returned" | "SyntaxError" | "IndexError"
    source,      \* self.source, a sequence of characters
    tokens,      \* self.tokens
    start,       \* self.start
    current,     \* self.current
    line,        \* self.line
    col,         \* self.col
    spans,       \* history: the source range [from, to) each token was scanned from
    \* --- Parser (parser.py) ---
    p_pc,        \* "idle" | "imports" | "end" | "returned" | the exception raised
    p_tokens,    \* self.tokens
    p_current,   \* self.current
    p_imports,   \* parse's local list imports
    p_main_func, \* parse's local main_func
    p_result,    \* the Program parse returned
    p_error      \* the message of the exception parse raised

anaVars == <<a_pc, program, modules, variables, errors, todo, visited, last, raised>>
lexVars == <<l_pc, source, tokens, start, current, line, col, spans>>
parVars == <<p_pc, p_tokens, p_current, p_imports, p_main_func, p_result, p_error>>

vars == <<anaVars, lexVars, parVars>>

-----------------------------------------------------------------------------
(* Bounds of the model.                                                      *)

MaxPre  == 1   \* declarations in front of the statement under test
MaxPost == 1   \* statements after the statement under test
MaxArgs == 2   \* arguments of a call
MaxSource == 4 \* characters of a source text
MaxChunks == 3 \* top-level pieces of a token list (imports, functions, main)
MaxOps == 2    \* binary operators of an expression under test

-----------------------------------------------------------------------------
(* Python values held by Literal nodes.                                      *)

PyBool(b)     == [py |-> "bool",  b |-> b,     n |-> 0, e |-> 0, s |-> <<>>]
PyInt(n)      == [py |-> "int",   b |-> FALSE, n |-> n, e |-> 0, s |-> <<>>]
PyFloat(m, e) == [py |-> "float", b |-> FALSE, n |-> m, e |-> e, s |-> <<>>]
PyStr(s)      == [py |-> "str",   b |-> FALSE, n |-> 0, e |-> 0, s |-> s]

(* iast.py: the AST node classes.                                            *)

NoneNode == [node |-> "None"]

Literal(value)     == [node |-> "Literal", value |-> value]
Variable(name)     == [node |-> "Variable", name |-> name]
Assign(name, value) == [node |-> "Assign", name |-> name, value |-> value]
Binary(left, operator, right) ==
    [node |-> "Binary", left |-> left, operator |-> operator, right |-> right]
Unary(operator, right) == [node |-> "Unary", operator |-> operator, right |-> right]
Call(callee, arguments) == [node |-> "Call", callee |-> callee, arguments |-> arguments]
Get(object, name)  == [node |-> "Get", object |-> object, name |-> name]

VarDecl(type_name, name, initializer) ==
    [node |-> "VarDecl", type_name |-> type_name, name |-> name,
     initializer |-> initializer]
ExprStmt(expr)     == [node |-> "ExprStmt", expr |-> expr]
Block(statements)  == [node |-> "Block", statements |-> statements]
IfStmt(condition, then_branch, else_branch) ==
    [node |-> "IfStmt", condition |-> condition, then_branch |-> then_branch,
     else_branch |-> else_branch]
WhileStmt(condition, body) ==
    [node |-> "WhileStmt", condition |-> condition, body |-> body]
ReturnStmt(value)  == [node |-> "ReturnStmt", value |-> value]
FunctionDecl(name, return_type, params, body) ==
    [node |-> "FunctionDecl", name |-> name, return_type |-> return_type,
     params |-> params, body |-> body]
UseDecl(module_name) == [node |-> "UseDecl", module_name |-> module_name]
Program(imports, main_func) ==
    [node |-> "Program", imports |-> imports, main_func |-> main_func]

-----------------------------------------------------------------------------
(* analyzer.py                                                               *)

None == "None"      \* Python's None as the type of an expression

SemanticError(kind, a, b) == [kind |-> kind, a |-> a, b |-> b]

ErrReserved(name)        == SemanticError("reserved name", name, "")
ErrAlreadyDeclared(name) == SemanticError("already declared", name, "")
ErrNotDeclared(name)     == SemanticError("not declared", name, "")
ErrIncompatible(actual, expected) == SemanticError("incompatible type", actual, expected)
ErrArithmetic            == SemanticError("arithmetic operands", "", "")
ErrUnaryMinus            == SemanticError("unary minus operand", "", "")
ErrNot                   == SemanticError("not operand", "", "")
ErrArity(func)           == SemanticError("arity", func, "")
ErrUnknownModule(m)      == SemanticError("unknown module", m, "")
ErrUnknownFunction(f)    == SemanticError("unknown function", f, "")
ErrUnknownMethod(m, f)   == SemanticError("unknown function or method", m, f)
ErrBadCall               == SemanticError("unknown function (bad call)", "", "")
ErrNotCallable           == SemanticError("callee is not a function name", "", "")

ReservedNames == {"main", "use", "if", "else", "while", "return", "console"}
ArithOps   == {"+", "-", "*", "/"}
CmpOps     == {"==", "!=", "<", "<=", ">", ">="}
NumericTypes == {"int", "float"}
Conversions == {"to_string", "to_int", "to_float"}

_literal_type(value) ==
    IF value.py = "bool" THEN "bool"
    ELSE IF value.py = "int" THEN "int"
    ELSE IF value.py = "float" THEN "float"
    ELSE IF value.py = "str" THEN (IF Len(value.s) = 1 THEN "char" ELSE "string")
    ELSE "unknown"

\* Mutant of _is_compatible: the widening applied in both directions.
_is_compatible_both_ways(expected, actual) ==
    IF expected = actual THEN TRUE
    ELSE IF {expected, actual} = {"float", "int"} THEN TRUE
    ELSE FALSE

_is_compatible(expected, actual) ==
    IF expected = actual THEN TRUE
    ELSE IF expected = "float" /\ actual = "int" THEN TRUE
    ELSE FALSE

return_type_map(func_name) ==
    CASE func_name = "to_string" -> "string"
      [] func_name = "to_int"    -> "int"
      [] func_name = "to_float"  -> "float"

\* The value of a visit_expr call: the type it returns and the errors it appends.
Ret(type, errs) == [type |-> type, errs |-> errs]

RECURSIVE visit_expr(_, _)
RECURSIVE visit_arguments(_, _)
RECURSIVE _check_call(_, _)

\* for arg in call.arguments: self.visit_expr(arg)
visit_arguments(arguments, table) ==
    IF arguments = <<>> THEN <<>>
    ELSE visit_expr(Head(arguments), table).errs
         \o visit_arguments(Tail(arguments), table)

\* The tail of _check_call: the unknown-function messages.
unknown_call(call) ==
    IF call.callee.node = "Variable"
    THEN Ret(None, <<ErrUnknownFunction(call.callee.name)>>)
    ELSE IF call.callee.node = "Get"
    THEN IF call.callee.object.node = "Variable"
         THEN Ret(None, <<ErrUnknownMethod(call.callee.object.name, call.callee.name)>>)
         ELSE Ret(None, <<ErrBadCall>>)
    ELSE Ret(None, <<ErrNotCallable>>)

\* Mutant of console_getter: a call with arguments has no type.
console_getter_untyped(func_name, call, type) ==
    IF Len(call.arguments) # 0 THEN Ret(None, <<ErrArity(func_name)>>) ELSE Ret(type, <<>>)

\* The getters of console: an arity error when arguments are given.
console_getter(func_name, call, type) ==
    Ret(type, IF Len(call.arguments) # 0 THEN <<ErrArity(func_name)>> ELSE <<>>)

conversion_call(call, table) ==
    LET func_name == call.callee.name IN
    IF Len(call.arguments) # 1
    THEN Ret(None, <<ErrArity(func_name)>>)
    ELSE Ret(return_type_map(func_name), visit_expr(call.arguments[1], table).errs)

_check_call(call, table) ==
    IF call.callee.node = "Get" /\ call.callee.object.node = "Variable"
    THEN LET module == call.callee.object.name
             func_name == call.callee.name
         IN  IF module = "console"
             THEN CASE func_name = "get_int"    -> console_getter(func_name, call, "int")
                    [] func_name = "get_float"  -> console_getter(func_name, call, "float")
                    [] func_name = "get_string" -> console_getter(func_name, call, "string")
                    [] func_name = "write" ->
                           Ret("void", visit_arguments(call.arguments, table))
                    [] OTHER -> unknown_call(call)
             ELSE Ret(None, <<ErrUnknownModule(module)>>)
    ELSE IF call.callee.node = "Variable" /\ call.callee.name \in Conversions
    THEN conversion_call(call, table)
    ELSE unknown_call(call)

\* Binary: the type of the node from its operator and its operands' types.
binary_type(operator, left_type, right_type) ==
    IF operator \in CmpOps THEN "bool" ELSE left_type

\* Mutant of binary_errors: one error for each operand that is not numeric.
binary_errors_per_operand(operator, left_type, right_type) ==
    IF operator \in ArithOps
    THEN (IF left_type \notin NumericTypes THEN <<ErrArithmetic>> ELSE <<>>)
         \o (IF right_type \notin NumericTypes THEN <<ErrArithmetic>> ELSE <<>>)
    ELSE <<>>

binary_errors(operator, left_type, right_type) ==
    IF operator \in ArithOps
       /\ (left_type \notin NumericTypes \/ right_type \notin NumericTypes)
    THEN <<ErrArithmetic>>
    ELSE <<>>

unary_errors(operator, operand_type) ==
    IF operator = "-" /\ operand_type \notin NumericTypes THEN <<ErrUnaryMinus>>
    ELSE IF operator = "not" /\ operand_type # "bool" THEN <<ErrNot>>
    ELSE <<>>

visit_expr(expr, table) ==
    CASE expr.node = "Literal" -> Ret(_literal_type(expr.value), <<>>)
      [] expr.node = "Variable" ->
            IF expr.name \notin DOMAIN table
            THEN Ret(None, <<ErrNotDeclared(expr.name)>>)
            ELSE Ret(table[expr.name], <<>>)
      [] expr.node = "Assign" ->
            IF expr.name \notin DOMAIN table
            THEN Ret(None, <<ErrNotDeclared(expr.name)>>)
            ELSE LET target_type == table[expr.name]
                     value == visit_expr(expr.value, table)
                 IN  Ret(target_type,
                         value.errs \o
                         (IF value.type # None /\ ~_is_compatible(target_type, value.type)
                          THEN <<ErrIncompatible(value.type, target_type)>>
                          ELSE <<>>))
      [] expr.node = "Binary" ->
            LET left == visit_expr(expr.left, table)
                right == visit_expr(expr.right, table)
            IN  Ret(binary_type(expr.operator, left.type, right.type),
                    left.errs \o right.errs
                    \o binary_errors(expr.operator, left.type, right.type))
      [] expr.node = "Unary" ->
            LET operand == visit_expr(expr.right, table)
            IN  Ret(operand.type, operand.errs \o unary_errors(expr.operator, operand.type))
      [] expr.node = "Call" -> _check_call(expr, table)
      [] expr.node = "Get" ->
            LET obj == visit_expr(expr.object, table)
            IN  Ret(IF obj.type = "string" /\ expr.name = "length" THEN "int" ELSE None,
                    obj.errs)
      [] OTHER -> Ret(None, <<>>)

_infer_type(expr, table) == visit_expr(expr, table)

\* Mutant of already_declared: the redeclaration check left out.
never_declared(name, table) == FALSE

\* `decl.name in self.variables`
already_declared(name, table) == name \in DOMAIN table

\* self.variables[decl.name] = VarInfo(decl.type_name, decl.name)
register(table, name, type_name) ==
    [k \in DOMAIN table \cup {name} |-> IF k = name THEN type_name ELSE table[k]]

\* visit_var_decl: the table and the appended errors it leaves behind.
visit_var_decl(decl, table) ==
    IF decl.name \in ReservedNames
    THEN [table |-> table, errs |-> <<ErrReserved(decl.name)>>, type |-> None,
          step |-> "reserved"]
    ELSE IF already_declared(decl.name, table)
    THEN [table |-> table, errs |-> <<ErrAlreadyDeclared(decl.name)>>, type |-> None,
          step |-> "redeclared"]
    ELSE LET init == _infer_type(decl.initializer, table) IN
         IF init.type = None
         THEN [table |-> table, errs |-> init.errs, type |-> None, step |-> "untyped"]
         ELSE IF ~_is_compatible(decl.type_name, init.type)
         THEN [table |-> table,
               errs |-> init.errs \o <<ErrIncompatible(init.type, decl.type_name)>>,
               type |-> init.type, step |-> "incompatible"]
         ELSE [table |-> register(table, decl.name, decl.type_name),
               errs |-> init.errs, type |-> init.type, step |-> "registered"]

-----------------------------------------------------------------------------
(* The walk of visit_stmt, one call per step.  An entry of todo is a        *)
(* statement with the depth of the visit_stmt recursion it is visited at.    *)

Entry(stmt, depth) == [stmt |-> stmt, depth |-> depth]

Entries(stmts, depth) == [i \in 1..Len(stmts) |-> Entry(stmts[i], depth)]

\* `for s in stmt.statements: self.visit_stmt(s)`
block_children(stmt) == stmt.statements

\* then_branch, and else_branch when there is one
if_children(stmt) ==
    <<stmt.then_branch>>
    \o (IF stmt.else_branch # NoneNode THEN <<stmt.else_branch>> ELSE <<>>)

NoLast ==
    [stmt |-> NoneNode, depth |-> 0, type |-> None, step |-> "", before |-> <<>>,
     errs |-> <<>>]

\* What one visit_stmt call did: the statement and its depth, the type visit_expr
\* returned for its expression, the table before the call, the errors it appended.
Step(entry, type, step, errs) ==
    [stmt |-> entry.stmt, depth |-> entry.depth, type |-> type, step |-> step,
     before |-> variables, errs |-> errs]

LexerIdle ==
    /\ l_pc = "idle"
    /\ source = <<>>
    /\ tokens = <<>>
    /\ start = 0
    /\ current = 0
    /\ line = 1
    /\ col = 1
    /\ spans = <<>>

\* The message of a SyntaxError: what was expected, the lexeme found, the hint.
Message(ln, text, found, hint) ==
    [line |-> ln, text |-> text, found |-> found, hint |-> hint]
NoMessage == Message(0, "", <<>>, <<>>)

ParserIdle ==
    /\ p_pc = "idle"
    /\ p_tokens = <<>>
    /\ p_current = 0
    /\ p_imports = <<>>
    /\ p_main_func = [node |-> "None"]
    /\ p_result = [node |-> "None"]
    /\ p_error = NoMessage

\* A step of the analyzer leaves the other stages alone.
AnalyzerOnly == UNCHANGED <<lexVars, parVars>>

AnalyzerIdle ==
    /\ a_pc = "idle"
    /\ program = NoneNode
    /\ modules = {}
    /\ variables = <<>>
    /\ errors = <<>>
    /\ todo = <<>>
    /\ visited = <<>>
    /\ last = NoLast
    /\ raised = NoneNode

\* analyze, up to the first statement: the imports, and visit_function's new table.
analyze(p) ==
    /\ a_pc' = "walking"
    /\ program' = p
    /\ modules' = {p.imports[i].module_name : i \in 1..Len(p.imports)}
    /\ variables' = <<>>
    /\ todo' = Entries(p.main_func.body.statements, 0)
    /\ visited' = <<>>
    /\ last' = NoLast
    /\ raised' = NoneNode
    /\ UNCHANGED errors
    /\ AnalyzerOnly

Visiting(kind) ==
    /\ a_pc = "walking"
    /\ todo # <<>>
    /\ Head(todo).stmt.node = kind

visit_stmt_VarDecl ==
    /\ Visiting("VarDecl")
    /\ LET entry == Head(todo)
           r == visit_var_decl(entry.stmt, variables)
       IN  /\ variables' = r.table
           /\ errors' = errors \o r.errs
           /\ last' = Step(entry, r.type, r.step, r.errs)
           /\ visited' = Append(visited, entry.stmt)
    /\ todo' = Tail(todo)
    /\ UNCHANGED <<a_pc, program, modules, raised>>
    /\ AnalyzerOnly

\* Mutant of visit_stmt_ExprStmt: the walk ends at the first expression
\* statement that appends an error.
visit_stmt_ExprStmt_stops ==
    /\ Visiting("ExprStmt")
    /\ LET entry == Head(todo)
           r == visit_expr(entry.stmt.expr, variables)
       IN  /\ errors' = errors \o r.errs
           /\ last' = Step(entry, r.type, "expr", r.errs)
           /\ visited' = Append(visited, entry.stmt)
           /\ todo' = IF r.errs # <<>> THEN <<>> ELSE Tail(todo)
    /\ UNCHANGED <<a_pc, program, modules, variables, raised>>
    /\ AnalyzerOnly

visit_stmt_ExprStmt ==
    /\ Visiting("ExprStmt")
    /\ LET entry == Head(todo)
           r == visit_expr(entry.stmt.expr, variables)
       IN  /\ errors' = errors \o r.errs
           /\ last' = Step(entry, r.type, "expr", r.errs)
           /\ visited' = Append(visited, entry.stmt)
    /\ todo' = Tail(todo)
    /\ UNCHANGED <<a_pc, program, modules, variables, raised>>
    /\ AnalyzerOnly

visit_stmt_Block ==
    /\ Visiting("Block")
    /\ LET entry == Head(todo)
       IN  /\ todo' = Entries(block_children(entry.stmt), entry.depth + 1) \o Tail(todo)
           /\ last' = Step(entry, None, "block", <<>>)
           /\ visited' = Append(visited, entry.stmt)
    /\ UNCHANGED <<a_pc, program, modules, variables, errors, raised>>
    /\ AnalyzerOnly

visit_stmt_IfStmt ==
    /\ Visiting("IfStmt")
    /\ LET entry == Head(todo)
           r == visit_expr(entry.stmt.condition, variables)
       IN  /\ errors' = errors \o r.errs
           /\ todo' = Entries(if_children(entry.stmt), entry.depth + 1) \o Tail(todo)
           /\ last' = Step(entry, r.type, "if", r.errs)
           /\ visited' = Append(visited, entry.stmt)
    /\ UNCHANGED <<a_pc, program, modules, variables, raised>>
    /\ AnalyzerOnly

visit_stmt_WhileStmt ==
    /\ Visiting("WhileStmt")
    /\ LET entry == Head(todo)
           r == visit_expr(entry.stmt.condition, variables)
       IN  /\ errors' = errors \o r.errs
           /\ todo' = <<Entry(entry.stmt.body, entry.depth + 1)>> \o Tail(todo)
           /\ last' = Step(entry, r.type, "while", r.errs)
           /\ visited' = Append(visited, entry.stmt)
    /\ UNCHANGED <<a_pc, program, modules, variables, raised>>
    /\ AnalyzerOnly

visit_stmt_ReturnStmt ==
    /\ Visiting("ReturnStmt")
    /\ LET entry == Head(todo)
           r == IF entry.stmt.value # NoneNode
                THEN visit_expr(entry.stmt.value, variables)
                ELSE Ret(None, <<>>)
       IN  /\ errors' = errors \o r.errs
           /\ last' = Step(entry, r.type, "return", r.errs)
           /\ visited' = Append(visited, entry.stmt)
    /\ todo' = Tail(todo)
    /\ UNCHANGED <<a_pc, program, modules, variables, raised>>
    /\ AnalyzerOnly

\* Mutant of first_error: the most recent error instead of the earliest.
latest_error(errs) == errs[Len(errs)]

\* `self.errors[0]`
first_error(errs) == errs[1]

\* analyze, after visit_function: `if self.errors: raise self.errors[0]`
analyze_end ==
    /\ a_pc = "walking"
    /\ todo = <<>>
    /\ IF errors # <<>>
       THEN a_pc' = "raised" /\ raised' = first_error(errors)
       ELSE a_pc' = "returned" /\ raised' = raised
    /\ UNCHANGED <<program, modules, variables, errors, todo, visited, last>>
    /\ AnalyzerOnly

-----------------------------------------------------------------------------
(* The programs analyze is run on: declarations in front (Setup), one       *)
(* statement under test, statements behind it (Trailers).                    *)

SeqUpTo(S, n) == UNION {[1..k -> S] : k \in 0..n}

TypeNames == {"int", "float", "bool", "char", "string", "void"}

LitZero  == Literal(PyInt(0))
LitInt   == Literal(PyInt(1))
LitFloat == Literal(PyFloat(25, 1))
LitBool  == Literal(PyBool(TRUE))
LitChar  == Literal(PyStr(<<"a">>))
LitStr   == Literal(PyStr(<<"a", "b">>))
LitEmpty == Literal(PyStr(<<>>))
VarX     == Variable("x")
VarY     == Variable("y")

Operands == {LitInt, LitFloat, LitStr, VarX}
Operators == ArithOps \cup {"==", "<", "and"}

Binaries == {Binary(l, op, r) : l \in Operands, op \in Operators, r \in Operands}

Negations == {Binary(LitZero, "-", e) : e \in {LitInt, LitFloat, VarX, LitStr}}

NestedBinaries ==
    {Binary(Binary(LitInt, "+", LitFloat), "*", LitInt),
     Binary(LitInt, "*", Binary(LitInt, "+", LitFloat)),
     Binary(Binary(LitInt, "<", LitFloat), "+", LitInt),
     Binary(LitZero, "-", Binary(LitFloat, "/", LitInt))}

ArgLists == SeqUpTo({LitInt, VarY}, MaxArgs)

ModuleCalls ==
    {Call(Get(Variable(m), f), args) :
        m \in {"console", "mathlib"},
        f \in {"get_int", "get_float", "get_string", "write", "beep"},
        args \in ArgLists}

PlainCalls ==
    {Call(Variable(f), args) :
        f \in Conversions \cup {"square"}, args \in ArgLists}

OddCalls == {Call(LitInt, <<>>), Call(Get(LitStr, "length"), <<>>)}

Gets == {Get(VarX, "length"), Get(VarX, "b"), Get(LitStr, "length"), Get(VarY, "length")}

Assigns ==
    {Assign(n, v) : n \in {"x", "y"}, v \in {LitInt, LitFloat, LitStr}}
    \cup {Assign("x", Assign("y", LitInt))}

Unaries == {Unary("not", LitBool), Unary("not", LitInt), Unary("not", VarX),
            Unary("-", LitInt), Unary("-", LitStr)}

Atoms == {LitZero, LitInt, LitFloat, LitBool, LitChar, LitStr, LitEmpty, VarX, VarY}

Exprs == Atoms \cup Binaries \cup Negations \cup NestedBinaries \cup ModuleCalls
         \cup PlainCalls \cup OddCalls \cup Gets \cup Assigns \cup Unaries

\* Initializers of the declarations under test: every type, no type, and mixes.
Initializers ==
    {LitInt, LitFloat, LitBool, LitChar, LitStr, LitEmpty, VarX,
     Call(Get(Variable("console"), "write"), <<LitInt>>),
     Call(Get(Variable("console"), "get_int"), <<>>),
     Call(Get(Variable("mathlib"), "square"), <<LitInt>>),
     Get(VarX, "b"), Get(VarX, "length"),
     Binary(LitInt, "+", LitFloat), Binary(LitFloat, "+", LitInt),
     Binary(LitInt, "+", LitInt), Binary(LitStr, "+", LitInt),
     Binary(LitZero, "-", LitFloat), Binary(LitInt, "<", LitFloat)}

Declarations ==
    {VarDecl(t, n, e) : t \in TypeNames, n \in {"x", "y", "console"}, e \in Initializers}

Simple == {VarDecl("int", "x", LitInt), VarDecl("string", "y", LitStr),
           ExprStmt(Assign("z", LitInt)), ExprStmt(VarX)}

Nestings ==
    {Block(<<s>>) : s \in Simple}
    \cup {Block(<<s, t>>) : s \in Simple, t \in Simple}
    \cup {Block(<<Block(<<s>>)>>) : s \in Simple}
    \cup {IfStmt(c, s, NoneNode) : c \in {LitBool, VarY}, s \in Simple}
    \cup {IfStmt(LitBool, Block(<<s>>), Block(<<t>>)) : s \in Simple, t \in Simple}
    \cup {WhileStmt(c, s) : c \in {LitBool, VarY}, s \in Simple}
    \cup {WhileStmt(LitBool, Block(<<s>>)) : s \in Simple}

Returns == {ReturnStmt(NoneNode), ReturnStmt(LitInt), ReturnStmt(VarY)}

Tested == {ExprStmt(e) : e \in Exprs} \cup Declarations \cup Nestings \cup Returns

Setup == {VarDecl("int", "x", LitZero), VarDecl("string", "x", LitEmpty),
          VarDecl("float", "y", LitFloat)}

Trailers == {ExprStmt(Assign("z", LitInt)), VarDecl("int", "x", LitZero)}

Imports == {<<>>, <<UseDecl("mathlib")>>}

Bodies ==
    {pre \o <<s>> \o post :
        pre \in SeqUpTo(Setup, MaxPre), s \in Tested, post \in SeqUpTo(Trailers, MaxPost)}

Programs ==
    {Program(imports, FunctionDecl("main", "void", <<>>, Block(body))) :
        imports \in Imports, body \in Bodies}

InitAnalyzer == AnalyzerIdle /\ LexerIdle /\ ParserIdle

\* A caller hands a program to a newly constructed analyzer.
call_analyze ==
    /\ a_pc = "idle"
    /\ \E p \in Programs : analyze(p)

NextAnalyzer ==
    \/ call_analyze
    \/ visit_stmt_VarDecl
    \/ visit_stmt_ExprStmt
    \/ visit_stmt_Block
    \/ visit_stmt_IfStmt
    \/ visit_stmt_WhileStmt
    \/ visit_stmt_ReturnStmt
    \/ analyze_end

SpecAnalyzer == InitAnalyzer /\ [][NextAnalyzer]_vars

(* One analyzer instance used for several programs, one call after another. *)

MaxCarried == 2   \* errors in self.errors when a further call starts

ReuseBodies ==
    {<<VarDecl("int", "x", LitInt)>>,
     <<VarDecl("int", "x", LitStr)>>,
     <<ExprStmt(Assign("z", LitInt)), VarDecl("int", "console", LitInt)>>,
     <<Block(<<ExprStmt(VarX)>>)>>,
     <<IfStmt(LitBool, VarDecl("int", "x", LitInt), NoneNode)>>,
     <<WhileStmt(LitBool, ExprStmt(LitInt))>>,
     <<ReturnStmt(LitInt)>>}

ReusePrograms ==
    {Program(<<>>, FunctionDecl("main", "void", <<>>, Block(body))) : body \in ReuseBodies}

\* A caller hands a program to the analyzer: a new one, or one whose earlier
\* call returned or raised.
call_analyze_again ==
    /\ a_pc \in {"idle", "returned", "raised"}
    /\ Len(errors) <= MaxCarried
    /\ \E p \in ReusePrograms : analyze(p)

NextAnalyzerReuse ==
    \/ call_analyze_again
    \/ visit_stmt_VarDecl
    \/ visit_stmt_ExprStmt
    \/ visit_stmt_Block
    \/ visit_stmt_IfStmt
    \/ visit_stmt_WhileStmt
    \/ visit_stmt_ReturnStmt
    \/ analyze_end

SpecAnalyzerReuse == InitAnalyzer /\ [][NextAnalyzerReuse]_vars

-----------------------------------------------------------------------------
(* Claims about the analyzer, checked under SpecAnalyzer.                    *)

IsPrefix(s, t) == Len(s) <= Len(t) /\ SubSeq(t, 1, Len(s)) = s

RECURSIVE SourceOrder(_)
\* The statements of a statement list in source order, nested ones included.
SourceOrder(stmts) ==
    IF stmts = <<>> THEN <<>>
    ELSE LET s == Head(stmts)
             inner == CASE s.node = "Block" -> s.statements
                        [] s.node = "IfStmt" ->
                              IF s.else_branch = NoneNode THEN <<s.then_branch>>
                              ELSE <<s.then_branch, s.else_branch>>
                        [] s.node = "WhileStmt" -> <<s.body>>
                        [] OTHER -> <<>>
         IN  <<s>> \o SourceOrder(inner) \o SourceOrder(Tail(stmts))

AnalyzeDone == a_pc \in {"returned", "raised"}

C1_WalkState ==
    /\ a_pc = "walking" =>
          IsPrefix(visited, SourceOrder(program.main_func.body.statements))
    /\ AnalyzeDone => visited = SourceOrder(program.main_func.body.statements)
    /\ a_pc = "raised" => errors # <<>> /\ raised = errors[1]
    /\ a_pc = "returned" => errors = <<>>

C1_WalkStep ==
    /\ IsPrefix(errors, errors')
    /\ (a_pc = "walking" /\ todo # <<>>) =>
          a_pc' = "walking" /\ visited' = Append(visited, Head(todo).stmt)

\* C1: analyze visits every statement of main in source order, errors or not;
\* errors are only ever appended; after the walk it raises the first recorded
\* error when there is one and returns normally when there is none.
C1_FullWalkRaisesFirst == []C1_WalkState /\ [][C1_WalkStep]_vars

\* C1 witness: analyze raised the first of several errors after a walk that
\* went on past the statement that recorded it.
C1_Witness ==
    /\ a_pc = "raised"
    /\ Len(errors) >= 3
    /\ errors[1] # errors[Len(errors)]
    /\ raised = errors[1]
    /\ Len(visited) >= 3
    /\ last.errs # <<>>

Bindings(table) == {<<n, table[n]>> : n \in DOMAIN table}

\* C2: one flat table per function: a VarDecl of a bound name, at any depth,
\* appends "already declared" and leaves the table as it is, and no step of
\* the walk removes or changes a binding.
C2_FlatTable ==
    [][(a_pc = "walking" /\ todo # <<>>) =>
          /\ Bindings(variables) \subseteq Bindings(variables')
          /\ LET s == Head(todo).stmt IN
             (s.node = "VarDecl" /\ s.name \in DOMAIN variables) =>
                 /\ variables' = variables
                 /\ errors' = Append(errors, ErrAlreadyDeclared(s.name))]_vars

\* C2 witness: a redeclaration two blocks deep was rejected.
C2_Witness ==
    /\ last.step = "redeclared"
    /\ last.depth >= 2
    /\ last.stmt.name \in DOMAIN variables
    /\ variables = last.before
    /\ errors[Len(errors)] = ErrAlreadyDeclared(last.stmt.name)

\* The expression a visited statement hands to visit_expr.
ExprOf(stmt) ==
    CASE stmt.node = "VarDecl" -> stmt.initializer
      [] stmt.node = "ExprStmt" -> stmt.expr
      [] stmt.node \in {"IfStmt", "WhileStmt"} -> stmt.condition
      [] stmt.node = "ReturnStmt" -> stmt.value
      [] OTHER -> NoneNode

NumericArithmetic(e, table) ==
    /\ e.node = "Binary"
    /\ e.operator \in ArithOps
    /\ visit_expr(e.left, table).type \in NumericTypes
    /\ visit_expr(e.right, table).type \in NumericTypes

Widened(e, table) ==
    IF visit_expr(e.left, table).type = "int" /\ visit_expr(e.right, table).type = "int"
    THEN "int" ELSE "float"

\* C3: an arithmetic expression over numeric operands types as int iff both
\* operands type as int, and as float otherwise; so no int variable is
\* registered from an initializer that mixes int and float.
C3_ArithmeticWidens ==
    (last.step \in {"expr", "if", "while", "return", "registered", "incompatible"}
     /\ NumericArithmetic(ExprOf(last.stmt), last.before))
    => /\ last.type = Widened(ExprOf(last.stmt), last.before)
       /\ (last.step = "registered" /\ last.stmt.type_name = "int")
             => Widened(ExprOf(last.stmt), last.before) = "int"

Compatible(expected, actual) ==
    expected = actual \/ (expected = "float" /\ actual = "int")

\* C4: _is_compatible holds exactly for equal types and for float <- int; a
\* declaration whose initializer has a type is registered when the pair is
\* compatible, and otherwise rejected with one incompatible-type error after
\* the initializer's own errors.
C4_CompatibleDeclarations ==
    /\ \A expected \in TypeNames, actual \in TypeNames :
          _is_compatible(expected, actual) <=> Compatible(expected, actual)
    /\ (last.stmt.node = "VarDecl" /\ last.step \notin {"reserved", "redeclared"}
        /\ last.type # None) =>
          LET decl == last.stmt
              own == visit_expr(decl.initializer, last.before).errs
          IN  IF Compatible(decl.type_name, last.type)
              THEN /\ last.step = "registered"
                   /\ Bindings(variables) =
                         {b \in Bindings(last.before) : b[1] # decl.name}
                         \cup {<<decl.name, decl.type_name>>}
                   /\ last.errs = own
              ELSE /\ last.step = "incompatible"
                   /\ variables = last.before
                   /\ last.errs = Append(own, ErrIncompatible(last.type, decl.type_name))

\* C4 witness: a float initializer was rejected for an int variable.
C4_Witness ==
    /\ last.step = "incompatible"
    /\ last.stmt.type_name = "int"
    /\ last.type = "float"
    /\ last.stmt.name \notin DOMAIN variables
    /\ errors[Len(errors)] = ErrIncompatible("float", "int")

\* The last step handed an expression to visit_expr.
ExprVisited ==
    /\ last.step \in {"expr", "if", "while", "return", "untyped", "incompatible", "registered"}
    /\ ExprOf(last.stmt) # NoneNode

\* The errors visit_expr appended for that expression.
ExprErrors ==
    IF last.step = "incompatible" THEN SubSeq(last.errs, 1, Len(last.errs) - 1)
    ELSE last.errs

\* m.f(...) with m a variable other than console.
LibraryCall(e) ==
    /\ e.node = "Call"
    /\ e.callee.node = "Get"
    /\ e.callee.object.node = "Variable"
    /\ e.callee.object.name # "console"

RECURSIVE ArgumentErrors(_, _)
\* The errors of the arguments of a call, in order.
ArgumentErrors(arguments, table) ==
    IF arguments = <<>> THEN <<>>
    ELSE visit_expr(Head(arguments), table).errs \o ArgumentErrors(Tail(arguments), table)

\* C11: a call m.f(...) with m other than console adds no error of its own,
\* checks its arguments and types as void when m is a user library imported
\* with use; the unknown-module error is appended only when m is not one.
C11_UserLibraryCalls ==
    (ExprVisited /\ LibraryCall(ExprOf(last.stmt))) =>
        LET call == ExprOf(last.stmt) IN
        IF call.callee.object.name \in modules
        THEN /\ last.type = "void"
             /\ ExprErrors = ArgumentErrors(call.arguments, last.before)
        ELSE ErrUnknownModule(call.callee.object.name) \in
                {ExprErrors[i] : i \in 1..Len(ExprErrors)}

ConsoleGetters == [get_int |-> "int", get_float |-> "float", get_string |-> "string"]

\* console.get_int(...), console.get_float(...) or console.get_string(...)
GetterCall(e) ==
    /\ e.node = "Call"
    /\ e.callee.node = "Get"
    /\ e.callee.object = Variable("console")
    /\ e.callee.name \in DOMAIN ConsoleGetters

\* C12: a getter of console called without arguments appends no error, called
\* with arguments appends exactly one arity error, and in both cases types as
\* int, float or string.
C12_ConsoleGetters ==
    (ExprVisited /\ GetterCall(ExprOf(last.stmt))) =>
        LET call == ExprOf(last.stmt) IN
        /\ last.type = ConsoleGetters[call.callee.name]
        /\ ExprErrors = IF call.arguments = <<>> THEN <<>>
                        ELSE <<ErrArity(call.callee.name)>>

\* C12 witness: console.get_float called with two arguments, one of them an
\* undeclared variable.
C12_Witness ==
    /\ last.step = "expr"
    /\ GetterCall(last.stmt.expr)
    /\ last.stmt.expr.callee.name = "get_float"
    /\ Len(last.stmt.expr.arguments) = 2
    /\ VarY \in {last.stmt.expr.arguments[i] : i \in 1..2}
    /\ "y" \notin DOMAIN last.before
    /\ last.type = "float"
    /\ last.errs = <<ErrArity("get_float")>>

\* The next statement of the walk assigns to a name the table does not bind.
UndeclaredAssignment ==
    /\ a_pc = "walking"
    /\ todo # <<>>
    /\ Head(todo).stmt.node = "ExprStmt"
    /\ Head(todo).stmt.expr.node = "Assign"
    /\ Head(todo).stmt.expr.name \notin DOMAIN variables

C13_Step ==
    UndeclaredAssignment =>
        /\ errors' = Append(errors, ErrNotDeclared(Head(todo).stmt.expr.name))
        /\ variables' = variables
        /\ a_pc' = "walking"
        /\ todo' = Tail(todo)

C13_Walk == AnalyzeDone => visited = SourceOrder(program.main_func.body.statements)

\* C13: an assignment to a name that is not bound appends exactly one
\* "not declared" error, leaves the table as it is and does not end the walk:
\* the statements after it are visited, and the walk ends only when every
\* statement of the function was.
C13_UndeclaredAssignment == [][C13_Step]_vars /\ []C13_Walk

\* C13 witness: after the assignment to the unbound y, a later statement was
\* visited and appended an error of its own.
C13_Witness ==
    /\ a_pc = "raised"
    /\ \E i \in 1..Len(visited) :
          /\ visited[i].node = "ExprStmt"
          /\ visited[i].expr.node = "Assign"
          /\ visited[i].expr.name = "y"
          /\ i < Len(visited)
    /\ errors[1] = ErrNotDeclared("y")
    /\ Len(errors) >= 2
    /\ last.errs # <<>>
    /\ last.stmt.node = "VarDecl"

C19_NoSilentDrop ==
    last.stmt.node = "VarDecl" =>
        \/ /\ last.stmt.name \in DOMAIN variables
           /\ variables[last.stmt.name] = last.stmt.type_name
        \/ last.errs # <<>>

\* 0 - e, the tree the parser builds for -e.
Negation(e) == e.node = "Binary" /\ e.left = Literal(PyInt(0)) /\ e.operator = "-"

\* C20: the negation of an operand that types as int or float has the type
\* of the operand, so no int variable is registered from a negated float.
C20_NegationKeepsType ==
    (ExprVisited /\ Negation(ExprOf(last.stmt))
     /\ visit_expr(ExprOf(last.stmt).right, last.before).type \in NumericTypes) =>
        LET operand == visit_expr(ExprOf(last.stmt).right, last.before) IN
        /\ last.type = operand.type
        /\ (last.step = "registered" /\ last.stmt.type_name = "int") => operand.type = "int"

\* The node _primary returns for a STRING_LITERAL token: a Literal that holds
\* the decoded text.  A CHAR_LITERAL token yields the same node.
string_literal(lexeme) == Literal(PyStr(lexeme))

\* The nodes of the double-quoted literals "", "a" and "ab".
StringLiterals == {string_literal(text) : text \in {<<>>, <<"a">>, <<"a", "b">>}}

\* The statement visited last declares a variable from a string literal; its
\* name is free and not reserved.
DeclaredFromStringLiteral ==
    /\ last.stmt.node = "VarDecl"
    /\ last.step \notin {"reserved", "redeclared"}
    /\ last.stmt.initializer \in StringLiterals

\* C21: a double-quoted literal of any length types as string: a string
\* variable is always registered from one, and a char variable never.
C21_StringLiteralsAreStrings ==
    /\ (ExprVisited /\ ExprOf(last.stmt) \in StringLiterals) => last.type = "string"
    /\ DeclaredFromStringLiteral =>
          /\ last.stmt.type_name = "string" => last.step = "registered" /\ last.errs = <<>>
          /\ last.stmt.type_name = "char" => last.step # "registered"

RECURSIVE OwnErrors(_, _)
\* The errors the statements of a program, taken in source order, give on a
\* table that starts as `table`: what an analyzer with no history appends.
OwnErrors(stmts, table) ==
    IF stmts = <<>> THEN <<>>
    ELSE LET stmt == Head(stmts)
             r == IF stmt.node = "VarDecl" THEN visit_var_decl(stmt, table)
                  ELSE [table |-> table, errs |-> visit_expr(ExprOf(stmt), table).errs]
         IN  r.errs \o OwnErrors(Tail(stmts), r.table)

ProgramErrors == OwnErrors(SourceOrder(program.main_func.body.statements), <<>>)

\* C22: whatever calls the analyzer served before, analyze returns for a
\* program without errors and raises a faulty program's own first error.
C22_OutcomeOfProgramOnly ==
    AnalyzeDone =>
        IF ProgramErrors = <<>>
        THEN a_pc = "returned"
        ELSE a_pc = "raised" /\ raised = ProgramErrors[1]

\* On an analyzer that served no call before, analyze has that outcome.
FirstCallOutcome == C22_OutcomeOfProgramOnly /\ (AnalyzeDone => errors = ProgramErrors)

-----------------------------------------------------------------------------
(* tokens.py and lexer.py.  A character is a one-character string; the      *)
(* source and the lexemes are sequences of characters, indexed from 0 as in  *)
(* the code (source[i] of the code is source[i + 1] here).                   *)

SQ  == "'"
DQ  == "\""
BS  == "\\"
NL  == "\n"
CR  == "\r"
TAB == "\t"
NUL == "<NUL>"     \* '\0'

Digits == {"0", "1", "2", "3", "4", "5", "6", "7", "8", "9"}
Letters ==
    {"a", "b", "c", "d", "e", "f", "g", "h", "i", "j", "k", "l", "m", "n", "o", "p",
     "q", "r", "s", "t", "u", "v", "w", "x", "y", "z",
     "A", "B", "C", "D", "E", "F", "G", "H", "I", "J", "K", "L", "M", "N", "O", "P",
     "Q", "R", "S", "T", "U", "V", "W", "X", "Y", "Z"}

isdigit(c) == c \in Digits
isalpha(c) == c \in Letters
isalnum(c) == c \in Letters \cup Digits

Token(type, lexeme, ln, cl) == [type |-> type, lexeme |-> lexeme, line |-> ln, col |-> cl]

\* KEYWORDS: the text of a keyword and its token type.
KEYWORDS ==
    {<< <<"u", "s", "e">>, "USE" >>,
     << <<"m", "a", "i", "n">>, "MAIN" >>,
     << <<"i", "n", "t">>, "INT" >>,
     << <<"f", "l", "o", "a", "t">>, "FLOAT" >>,
     << <<"b", "o", "o", "l">>, "BOOL" >>,
     << <<"c", "h", "a", "r">>, "CHAR" >>,
     << <<"s", "t", "r", "i", "n", "g">>, "STRING_TYPE" >>,
     << <<"v", "o", "i", "d">>, "VOID" >>,
     << <<"i", "f">>, "IF" >>,
     << <<"e", "l", "s", "e">>, "ELSE" >>,
     << <<"w", "h", "i", "l", "e">>, "WHILE" >>,
     << <<"f", "o", "r">>, "FOR" >>,
     << <<"r", "e", "t", "u", "r", "n">>, "RETURN" >>,
     << <<"f", "u", "n", "c", "t", "i", "o", "n">>, "FUNCTION" >>,
     << <<"a", "n", "d">>, "AND" >>,
     << <<"o", "r">>, "OR" >>,
     << <<"n", "o", "t">>, "NOT" >>,
     << <<"t", "r", "u", "e">>, "TRUE" >>,
     << <<"f", "a", "l", "s", "e">>, "FALSE" >>}

\* KEYWORDS.get(text, TokenType.IDENTIFIER)
keyword_type(text) ==
    IF \E k \in KEYWORDS : k[1] = text
    THEN (CHOOSE k \in KEYWORDS : k[1] = text)[2]
    ELSE "IDENTIFIER"

\* The one-character tokens of _scan_token.
Punctuation ==
    {<<"(", "LPAREN">>, <<")", "RPAREN">>, <<"{", "LBRACE">>, <<"}", "RBRACE">>,
     <<"[", "LBRACKET">>, <<"]", "RBRACKET">>, <<",", "COMMA">>, <<";", "SEMICOLON">>,
     <<".", "DOT">>, <<"-", "MINUS">>, <<"+", "PLUS">>, <<"*", "STAR">>}

PunctuationChars == {p[1] : p \in Punctuation}
punctuation_type(c) == (CHOOSE p \in Punctuation : p[1] = c)[2]

\* The escapes _char decodes.
CharEscapes ==
    {<<"n", NL>>, <<"t", TAB>>, <<"r", CR>>, <<BS, BS>>, <<SQ, SQ>>, <<DQ, DQ>>}

\* source[from:to]
Slice(from, to) ==
    LET hi == IF to > Len(source) THEN Len(source) ELSE to
    IN  IF from >= hi THEN <<>> ELSE SubSeq(source, from + 1, hi)

\* The position fields of the lexer, and the exception raised so far ("" for none).
Cursor == [current |-> current, line |-> line, col |-> col, exc |-> ""]

_is_at_end(c) == c.current >= Len(source)

\* The character _advance returns at c.
advanced_char(c) == source[c.current + 1]

\* _advance: source[current] is read unguarded, an IndexError past the end.
_advance(c) ==
    IF c.exc # "" THEN c
    ELSE IF c.current >= Len(source) THEN [c EXCEPT !.exc = "IndexError"]
    ELSE IF advanced_char(c) = NL
    THEN [c EXCEPT !.current = @ + 1, !.line = @ + 1, !.col = 1]
    ELSE [c EXCEPT !.current = @ + 1, !.col = @ + 1]

_peek(c) == IF _is_at_end(c) THEN NUL ELSE source[c.current + 1]

_peek_next(c) == IF c.current + 1 >= Len(source) THEN NUL ELSE source[c.current + 2]

\* What one _scan_token call leaves: the cursor and the tokens it appended.
Scanned(c, emitted) == [cur |-> c, emit |-> emitted]

\* raise self._error(...)
_error(c) == Scanned([c EXCEPT !.exc = IF @ = "" THEN "SyntaxError" ELSE @], <<>>)

\* _add_token, for the token that starts at st and ends at cursor c.
_add_token(type, st, c) ==
    Token(type, Slice(st, c.current), c.line, c.col - (c.current - st))

RECURSIVE comment_body(_)
\* while self._peek() != '\n' and not self._is_at_end(): self._advance()
comment_body(c) ==
    IF _peek(c) # NL /\ ~_is_at_end(c) THEN comment_body(_advance(c)) ELSE c

RECURSIVE string_body(_)
\* The loop of _string: the line is counted here and again by _advance.
string_body(c) ==
    IF _peek(c) # DQ /\ ~_is_at_end(c)
    THEN string_body(_advance(IF _peek(c) = NL THEN [c EXCEPT !.line = @ + 1] ELSE c))
    ELSE c

_string(st, c0) ==
    LET c == string_body(c0) IN
    IF _is_at_end(c) THEN _error(c)
    ELSE LET d == _advance(c)
             value == Slice(st + 1, d.current - 1)
         IN  Scanned(d, <<Token("STRING_LITERAL", value, d.line,
                                d.col - (d.current - st))>>)

_char(st, c0) ==
    IF _is_at_end(c0) THEN _error(c0)
    ELSE LET start_col == c0.col IN
         IF _peek(c0) = BS
         THEN LET c1 == _advance(c0)
                  c2 == _advance(c1)
              IN  IF c2.exc # "" THEN _error(c2)
                  ELSE LET escape_char == advanced_char(c1) IN
                       IF ~\E x \in CharEscapes : x[1] = escape_char THEN _error(c2)
                       ELSE IF _peek(c2) # SQ THEN _error(c2)
                       ELSE LET c3 == _advance(c2)
                                char_value ==
                                    (CHOOSE x \in CharEscapes : x[1] = escape_char)[2]
                            IN  Scanned(c3, <<Token("CHAR_LITERAL", <<char_value>>,
                                                    c3.line, start_col)>>)
         ELSE LET c1 == _advance(c0)
                  char_value == advanced_char(c0)
              IN  IF char_value = NL THEN _error(c1)
                  ELSE IF _peek(c1) # SQ THEN _error(c1)
                  ELSE LET c2 == _advance(c1)
                       IN  Scanned(c2, <<Token("CHAR_LITERAL", <<char_value>>,
                                               c2.line, start_col)>>)

RECURSIVE digits_body(_)
\* while self._peek().isdigit(): self._advance()
digits_body(c) == IF isdigit(_peek(c)) THEN digits_body(_advance(c)) ELSE c

_number(st, c0) ==
    LET c == digits_body(c0) IN
    IF _peek(c) = "." /\ isdigit(_peek_next(c))
    THEN LET d == digits_body(_advance(c))
         IN  Scanned(d, <<_add_token("FLOAT_LITERAL", st, d)>>)
    ELSE Scanned(c, <<_add_token("INTEGER", st, c)>>)

RECURSIVE identifier_body(_)
\* while self._peek().isalnum() or self._peek() == '_': self._advance()
identifier_body(c) ==
    IF isalnum(_peek(c)) \/ _peek(c) = "_" THEN identifier_body(_advance(c)) ELSE c

_identifier(st, c0) ==
    LET c == identifier_body(c0)
        text == Slice(st, c.current)
    IN  Scanned(c, <<_add_token(keyword_type(text), st, c)>>)

\* '=', '<', '>': merged with a following '='.
Operators1 == {<<"=", "ASSIGN">>, <<"<", "LT">>, <<">", "GT">>}
Operators2 == {<<"=", "EQ">>, <<"<", "LE">>, <<">", "GE">>}

_operator(st, c0, ch) ==
    IF _peek(c0) = "="
    THEN LET c1 == _advance(c0)
         IN  Scanned(c1, <<_add_token((CHOOSE x \in Operators2 : x[1] = ch)[2], st, c1)>>)
    ELSE Scanned(c0, <<_add_token((CHOOSE x \in Operators1 : x[1] = ch)[2], st, c0)>>)

\* A step of the lexer leaves the other stages alone.
LexerOnly == UNCHANGED <<anaVars, parVars>>

\* tokenize's loop is about to scan a token that starts with one of `chars`.
Scanning(chars) ==
    /\ l_pc = "scanning"
    /\ current < Len(source)
    /\ source[current + 1] \in chars

\* Mutant of First: _scan_token looks at the character and leaves the cursor.
First_stays == Cursor

\* `c = self._advance()`: the cursor behind the first character.
First == _advance(Cursor)

\* One turn of tokenize's loop: `self.start = self.current; self._scan_token()`.
Commit(r) ==
    /\ start' = current
    /\ current' = r.cur.current
    /\ line' = r.cur.line
    /\ col' = r.cur.col
    /\ IF r.cur.exc # ""
       THEN l_pc' = r.cur.exc /\ tokens' = tokens /\ spans' = spans
       ELSE /\ l_pc' = l_pc
            /\ tokens' = tokens \o r.emit
            /\ spans' = spans \o [i \in 1..Len(r.emit) |->
                                     [from |-> current, to |-> r.cur.current]]
    /\ UNCHANGED source
    /\ LexerOnly

scan_blank ==
    /\ Scanning({" ", CR, TAB, NL})
    /\ Commit(Scanned(First, <<>>))

scan_punctuation ==
    /\ Scanning(PunctuationChars)
    /\ Commit(Scanned(First,
                      <<_add_token(punctuation_type(source[current + 1]), current, First)>>))

scan_slash ==
    /\ Scanning({"/"})
    /\ Commit(IF _peek(First) = "/"
              THEN Scanned(comment_body(First), <<>>)
              ELSE Scanned(First, <<_add_token("SLASH", current, First)>>))

scan_operator ==
    /\ Scanning({"=", "<", ">"})
    /\ Commit(_operator(current, First, source[current + 1]))

scan_bang ==
    /\ Scanning({"!"})
    /\ Commit(IF _peek(First) = "="
              THEN LET c1 == _advance(First)
                   IN  Scanned(c1, <<_add_token("NE", current, c1)>>)
              ELSE _error(First))

scan_string ==
    /\ Scanning({DQ})
    /\ Commit(_string(current, First))

scan_char ==
    /\ Scanning({SQ})
    /\ Commit(_char(current, First))

scan_number ==
    /\ Scanning(Digits)
    /\ Commit(_number(current, First))

scan_identifier ==
    /\ Scanning(Letters \cup {"_"})
    /\ Commit(_identifier(current, First))

scan_invalid ==
    /\ l_pc = "scanning"
    /\ current < Len(source)
    /\ source[current + 1] \notin
          {" ", CR, TAB, NL, "/", "=", "<", ">", "!", DQ, SQ, "_"}
          \cup PunctuationChars \cup Digits \cup Letters
    /\ Commit(_error(First))

\* tokenize, after the loop: the EOF token.
tokenize_end ==
    /\ l_pc = "scanning"
    /\ current >= Len(source)
    /\ l_pc' = "returned"
    /\ tokens' = Append(tokens, Token("EOF", <<>>, line, col))
    /\ spans' = Append(spans, [from |-> current, to |-> current])
    /\ UNCHANGED <<source, start, current, line, col>>
    /\ LexerOnly

(* The source texts: every text of up to MaxSource characters of Alphabet.   *)

Alphabet == {SQ, DQ, BS, NL, " ", "o", "r", "1", ".", "=", "/", "!"}

Sources == SeqUpTo(Alphabet, MaxSource)

\* Lexer(source)
InitLexer ==
    /\ AnalyzerIdle
    /\ ParserIdle
    /\ l_pc = "scanning"
    /\ source \in Sources
    /\ tokens = <<>>
    /\ start = 0
    /\ current = 0
    /\ line = 1
    /\ col = 1
    /\ spans = <<>>

NextLexer ==
    \/ scan_blank
    \/ scan_punctuation
    \/ scan_slash
    \/ scan_operator
    \/ scan_bang
    \/ scan_string
    \/ scan_char
    \/ scan_number
    \/ scan_identifier
    \/ scan_invalid
    \/ tokenize_end

SpecLexer == InitLexer /\ [][NextLexer]_vars

\* The longest source text of the runs checked for termination.
MaxFairSource == 3

InitLexerFair == InitLexer /\ Len(source) <= MaxFairSource

\* tokenize runs its loop without pause: a turn that can be taken is taken.
SpecLexerFair == InitLexerFair /\ [][NextLexer]_vars /\ WF_vars(NextLexer)

-----------------------------------------------------------------------------
(* Claims about the lexer, checked under SpecLexer.                          *)

\* The token that starts at `start` is a character literal cut by the end of
\* the source: after the quote, after a backslash, or before the closing quote.
UnterminatedCharLiteral ==
    /\ start < Len(source)
    /\ source[start + 1] = SQ
    /\ \/ Len(source) = start + 1
       \/ Len(source) = start + 2
       \/ Len(source) = start + 3 /\ source[start + 2] = BS

\* C8: tokenize returns a token list or fails with a SyntaxError, never by
\* reading the source past its end; an unterminated character literal is a
\* SyntaxError.
C8_LexicalFaultsAreSyntaxErrors ==
    /\ l_pc \in {"scanning", "returned", "SyntaxError"}
    /\ (l_pc # "scanning" /\ UnterminatedCharLiteral) => l_pc = "SyntaxError"

ESC == "<ESC>"     \* 0x1B

\* The escapes of a string literal and what each stands for.
StringEscapes ==
    {<<"n", NL>>, <<"t", TAB>>, <<"r", CR>>, <<DQ, DQ>>, <<BS, BS>>, <<"e", ESC>>}

RECURSIVE DecodedString(_)
\* The decoded text of the string literal whose content starts at index i:
\* up to the first quote that no backslash escapes; unterminated at the end.
DecodedString(i) ==
    IF i >= Len(source) THEN [closed |-> FALSE, text |-> <<>>]
    ELSE LET c == source[i + 1] IN
         IF c = DQ THEN [closed |-> TRUE, text |-> <<>>]
         ELSE IF c = BS /\ i + 1 < Len(source)
         THEN LET e == source[i + 2]
                  rest == DecodedString(i + 2)
                  head == IF \E x \in StringEscapes : x[1] = e
                          THEN <<(CHOOSE x \in StringEscapes : x[1] = e)[2]>>
                          ELSE <<BS, e>>
              IN  [closed |-> rest.closed, text |-> head \o rest.text]
         ELSE LET rest == DecodedString(i + 1)
              IN  [closed |-> rest.closed, text |-> <<c>> \o rest.text]

\* C9: the lexeme of a string literal is its decoded text (escapes replaced,
\* an escaped quote not ending the literal); the lexeme of a token that is no
\* literal is the source text it was scanned from.
C9_LexemesDecoded ==
    \A i \in 1..Len(tokens) :
        /\ tokens[i].type = "STRING_LITERAL" =>
              /\ DecodedString(spans[i].from + 1).closed
              /\ tokens[i].lexeme = DecodedString(spans[i].from + 1).text
        /\ tokens[i].type \notin {"STRING_LITERAL", "CHAR_LITERAL"} =>
              tokens[i].lexeme = Slice(spans[i].from, spans[i].to)

\* The line and the column of the character at index k of the source.
NewlinesBefore(k) == {j \in 1..k : source[j] = NL}
LineAt(k) == 1 + Cardinality(NewlinesBefore(k))
ColumnAt(k) ==
    IF NewlinesBefore(k) = {} THEN k + 1
    ELSE k + 1 - (CHOOSE j \in NewlinesBefore(k) : \A h \in NewlinesBefore(k) : h <= j)

\* C10: every token carries the line and the column of its first character,
\* and the running counters are those of the cursor: one line per newline
\* consumed, the column back at 1 behind each newline.
C10_TokenPositions ==
    /\ \A i \in 1..Len(tokens) :
          /\ tokens[i].line = LineAt(spans[i].from)
          /\ tokens[i].col = ColumnAt(spans[i].from)
    /\ l_pc \in {"scanning", "returned"} =>
          line = LineAt(current) /\ col = ColumnAt(current)

\* A turn of tokenize's loop: a call of _scan_token.
ScanTokenCalled == l_pc = "scanning" /\ current < Len(source)

\* The token list tokenize returns: its last token is the only EOF.
EndsWithOnlyEOF ==
    /\ tokens # <<>>
    /\ \A i \in 1..Len(tokens) : tokens[i].type = "EOF" <=> i = Len(tokens)

\* C17: every call of _scan_token moves the cursor forward, the cursor never
\* passes the end of the source, and so tokenize ends: with an error, or with
\* a token list whose last token is the only EOF.
C17_TokenizeTerminates ==
    /\ [][ScanTokenCalled => current' > current]_vars
    /\ [](current <= Len(source))
    /\ <>(l_pc \in {"returned", "SyntaxError", "IndexError"})
    /\ [](l_pc = "returned" => EndsWithOnlyEOF)
    /\ [](l_pc = "scanning" => \A i \in 1..Len(tokens) : tokens[i].type # "EOF")

\* C17 witness: a source of full length was scanned in several calls, to the
\* end.
C17_Witness ==
    /\ l_pc = "returned"
    /\ Len(source) = MaxFairSource
    /\ current = Len(source)
    /\ Len(tokens) > 2
    /\ EndsWithOnlyEOF

\* ===========================================================================
\* Parser (parser.py).  Every parsing method is an operator of the position
\* self.current it starts at; it yields the node it returns and the position
\* it leaves, or the exception it raises.  Lexemes are sequences of characters;
\* the strings the parser's own code supplies (type names, operators, "main")
\* are strings.
\* ===========================================================================

Ok(node, pos) == [exc |-> "", msg |-> NoMessage, node |-> node, pos |-> pos]
Raise(exc, msg, pos) == [exc |-> exc, msg |-> msg, node |-> NoneNode, pos |-> pos]

parser_peek(pos) == p_tokens[pos + 1]

\* self.tokens[self.current - 1]; index -1 is the last token.
parser_previous(pos) == IF pos = 0 THEN p_tokens[Len(p_tokens)] ELSE p_tokens[pos]

parser_is_at_end(pos) == parser_peek(pos).type = "EOF"

parser_check(types, pos) == ~parser_is_at_end(pos) /\ parser_peek(pos).type \in types

\* The position _advance leaves; the token it returns is parser_previous of it.
parser_advance(pos) == IF parser_is_at_end(pos) THEN pos ELSE pos + 1

parser_error(token, text, found, hint, pos) ==
    Raise("SyntaxError", Message(token.line, text, found, hint), pos)

found_repr(token) ==
    IF token.type = "EOF" THEN <<"end of file">> ELSE <<SQ>> \o token.lexeme \o <<SQ>>

_consume(type, message, pos) ==
    IF parser_check({type}, pos)
    THEN Ok(parser_previous(parser_advance(pos)), parser_advance(pos))
    ELSE parser_error(parser_peek(pos), message, found_repr(parser_peek(pos)), <<>>, pos)

\* ---- _closest_match -------------------------------------------------------

lower_char(c) ==
    LET Uppercase == <<"A", "B", "C", "D", "E", "F", "G", "H", "I", "J", "K", "L", "M",
                       "N", "O", "P", "Q", "R", "S", "T", "U", "V", "W", "X", "Y", "Z">>
        Lowercase == <<"a", "b", "c", "d", "e", "f", "g", "h", "i", "j", "k", "l", "m",
                       "n", "o", "p", "q", "r", "s", "t", "u", "v", "w", "x", "y", "z">>
    IN IF \E i \in 1..Len(Uppercase) : Uppercase[i] = c
       THEN Lowercase[CHOOSE i \in 1..Len(Uppercase) : Uppercase[i] = c]
       ELSE c

lower(s) == [i \in 1..Len(s) |-> lower_char(s[i])]

Min(x, y) == IF x <= y THEN x ELSE y

\* The inner loop of levenshtein: current_row grows to Len(b) + 1 entries.
RECURSIVE levenshtein_row(_, _, _, _)
levenshtein_row(c1, b, previous_row, current_row) ==
    IF Len(current_row) > Len(b) THEN current_row
    ELSE LET j == Len(current_row)
             insertions == previous_row[j + 1] + 1
             deletions == current_row[j] + 1
             substitutions == previous_row[j] + (IF c1 # b[j] THEN 1 ELSE 0)
         IN levenshtein_row(c1, b, previous_row,
                Append(current_row, Min(insertions, Min(deletions, substitutions))))

\* The outer loop of levenshtein, from the i-th character of a on.
RECURSIVE levenshtein_rows(_, _, _, _)
levenshtein_rows(a, b, i, previous_row) ==
    IF i > Len(a) THEN previous_row
    ELSE levenshtein_rows(a, b, i + 1, levenshtein_row(a[i], b, previous_row, <<i>>))

levenshtein(a, b) ==
    LET long == IF Len(a) < Len(b) THEN b ELSE a
        short == IF Len(a) < Len(b) THEN a ELSE b
        row == levenshtein_rows(long, short, 1, [j \in 1..(Len(short) + 1) |-> j - 1])
    IN IF Len(short) = 0 THEN Len(long) ELSE row[Len(row)]

best_distance == 3

\* Mutant of closest_loop: a candidate as close as the best one replaces it.
RECURSIVE closest_loop_last(_, _, _, _, _)
closest_loop_last(word, candidates, i, best_match, best) ==
    IF i > Len(candidates) THEN best_match
    ELSE LET cand == candidates[i]
             dist == levenshtein(lower(word), lower(cand))
         IN IF dist < best \/ (dist = best /\ best_match # <<>>)
            THEN closest_loop_last(word, candidates, i + 1, cand, dist)
            ELSE closest_loop_last(word, candidates, i + 1, best_match, best)

\* The loop of _closest_match from the i-th candidate on; <<>> is None.
RECURSIVE closest_loop(_, _, _, _, _)
closest_loop(word, candidates, i, best_match, best) ==
    IF i > Len(candidates) THEN best_match
    ELSE LET cand == candidates[i]
             dist == levenshtein(lower(word), lower(cand))
         IN IF dist < best
            THEN closest_loop(word, candidates, i + 1, cand, dist)
            ELSE closest_loop(word, candidates, i + 1, best_match, best)

_closest_match(word, candidates) == closest_loop(word, candidates, 1, <<>>, best_distance)

known_types ==
    << <<"i", "n", "t">>, <<"f", "l", "o", "a", "t">>, <<"b", "o", "o", "l">>,
       <<"c", "h", "a", "r">>, <<"s", "t", "r", "i", "n", "g">>, <<"v", "o", "i", "d">> >>

unknown_type(bad_token, pos) ==
    parser_error(bad_token, "unknown type", bad_token.lexeme,
                 _closest_match(bad_token.lexeme, known_types), pos)

\* ---- conversions of lexemes -----------------------------------------------

\* int(lexeme) for a lexeme of decimal digits.
RECURSIVE int(_)
int(lexeme) ==
    IF lexeme = <<>> THEN 0
    ELSE int(SubSeq(lexeme, 1, Len(lexeme) - 1)) * 10
         + (CHOOSE d \in 0..9 : ToString(d) = lexeme[Len(lexeme)])

\* The float m / 10^e, without trailing zeros in its fraction.
RECURSIVE normal_float(_, _)
normal_float(m, e) ==
    IF e > 0 /\ m % 10 = 0 THEN normal_float(m \div 10, e - 1) ELSE PyFloat(m, e)

\* float(lexeme) for a lexeme digits "." digits.
float(lexeme) ==
    LET dot == CHOOSE i \in 1..Len(lexeme) : lexeme[i] = "."
    IN normal_float(int(SelectSeq(lexeme, isdigit)), Len(lexeme) - dot)

\* TokenType.value of the type keywords.
type_value(type) ==
    CASE type = "INT" -> "int"
      [] type = "FLOAT" -> "float"
      [] type = "BOOL" -> "bool"
      [] type = "CHAR" -> "char"
      [] type = "STRING_TYPE" -> "string"
      [] type = "VOID" -> "void"

TypeTokens == {"INT", "FLOAT", "BOOL", "CHAR", "STRING_TYPE", "VOID"}

default_values ==
    [int |-> Literal(PyInt(0)), float |-> Literal(PyFloat(0, 0)),
     bool |-> Literal(PyBool(FALSE)), char |-> Literal(PyStr(<<NUL>>)),
     string |-> Literal(PyStr(<<>>))]

\* ---- the grammar ------------------------------------------------------------

\* Sequencing: an exception of a step ends the method, otherwise the rest of
\* the method runs on the step's result.
Then(r, rest(_)) == IF r.exc # "" THEN r ELSE rest(r)

RECURSIVE _block(_)
RECURSIVE block_statements(_, _)
RECURSIVE _declaration(_)
RECURSIVE _parse_var_decl(_)
RECURSIVE _statement(_)
RECURSIVE _expression(_)
RECURSIVE _assignment(_)
RECURSIVE binary_operand(_, _)
RECURSIVE binary_loop(_, _)
RECURSIVE _unary(_)
RECURSIVE _call(_)
RECURSIVE call_loop(_)
RECURSIVE call_arguments(_, _)
RECURSIVE _primary(_)

_consume_type(pos) ==
    IF parser_check(TypeTokens, pos)
    THEN Ok(type_value(parser_peek(pos).type), parser_advance(pos))
    ELSE IF parser_peek(pos).type = "IDENTIFIER"
         THEN unknown_type(parser_peek(pos), pos)
         ELSE parser_error(parser_peek(pos), "expected a type name", <<>>, <<>>, pos)

_function_decl(is_main, pos) ==
    IF is_main
    THEN Then(_consume("MAIN", "expected 'main'", pos), LAMBDA main :
         Then(_consume("LPAREN", "expected '(' after main", main.pos), LAMBDA lparen :
         Then(_consume("RPAREN", "expected ')' after (", lparen.pos), LAMBDA rparen :
         Then(_block(rparen.pos), LAMBDA body :
         Ok(FunctionDecl("main", "void", <<>>, body.node), body.pos)))))
    ELSE Then(_consume_type(pos), LAMBDA ret_type :
         Then(_consume("FUNCTION", "expected 'function'", ret_type.pos), LAMBDA function :
         Then(_consume("IDENTIFIER", "expected a function name", function.pos), LAMBDA name :
         Then(_consume("LPAREN", "expected '(' after the function name", name.pos),
              LAMBDA lparen :
         Then(_consume("RPAREN", "expected ')' after (", lparen.pos), LAMBDA rparen :
         Then(_block(rparen.pos), LAMBDA body :
         Ok(FunctionDecl(name.node.lexeme, ret_type.node, <<>>, body.node), body.pos)))))))

\* The while loop of _block: statements so far, position reached.
block_statements(statements, pos) ==
    IF ~parser_check({"RBRACE"}, pos) /\ ~parser_is_at_end(pos)
    THEN Then(_declaration(pos), LAMBDA stmt :
         block_statements(Append(statements, stmt.node), stmt.pos))
    ELSE Ok(statements, pos)

_block(pos) ==
    Then(_consume("LBRACE", "expected '{'", pos), LAMBDA lbrace :
    Then(block_statements(<<>>, lbrace.pos), LAMBDA statements :
    Then(_consume("RBRACE", "expected '}'", statements.pos), LAMBDA rbrace :
    Ok(Block(statements.node), rbrace.pos))))

_next_token_is_identifier_or_semicolon(pos) ==
    IF pos + 1 >= Len(p_tokens) THEN FALSE
    ELSE p_tokens[pos + 2].type \in {"IDENTIFIER", "SEMICOLON"}

\* The initializer of a declaration whose name ends at pos: the expression
\* after "=", or the default of the type.
var_initializer(type_token, pos) ==
    IF parser_check({"ASSIGN"}, pos) THEN _expression(parser_advance(pos))
    ELSE IF type_value(type_token.type) \notin DOMAIN default_values
         THEN parser_error(type_token, "type cannot be declared without an initializer",
                           type_token.lexeme, <<>>, pos)
         ELSE Ok(default_values[type_value(type_token.type)], pos)

\* type_name is bound only on the branch without an initializer; the return
\* statement reads it on both.
_parse_var_decl(pos) ==
    Then(_consume("IDENTIFIER", "expected a variable name", parser_advance(pos)), LAMBDA name :
    Then(var_initializer(parser_peek(pos), name.pos), LAMBDA initializer :
    Then(_consume("SEMICOLON", "expected ';' at the end of the declaration", initializer.pos),
         LAMBDA semicolon :
    IF parser_check({"ASSIGN"}, name.pos)
    THEN Raise("UnboundLocalError", Message(0, "type_name", <<>>, <<>>), semicolon.pos)
    ELSE Ok(VarDecl(type_value(parser_peek(pos).type), name.node.lexeme, initializer.node),
            semicolon.pos))))

_declaration(pos) ==
    IF parser_check(TypeTokens, pos) THEN _parse_var_decl(pos)
    ELSE IF parser_check({"IDENTIFIER"}, pos) /\ _next_token_is_identifier_or_semicolon(pos)
         THEN unknown_type(parser_peek(pos), parser_advance(pos))
         ELSE _statement(pos)

if_statement(pos) ==
    Then(_consume("LPAREN", "expected '(' after if", parser_advance(pos)), LAMBDA lparen :
    Then(_expression(lparen.pos), LAMBDA condition :
    Then(_consume("RPAREN", "expected ')' after the condition", condition.pos), LAMBDA rparen :
    Then(_statement(rparen.pos), LAMBDA then_branch :
    Then(IF parser_check({"ELSE"}, then_branch.pos)
         THEN _statement(parser_advance(then_branch.pos))
         ELSE Ok(NoneNode, then_branch.pos), LAMBDA else_branch :
    Ok(IfStmt(condition.node, then_branch.node, else_branch.node), else_branch.pos))))))

while_statement(pos) ==
    Then(_consume("LPAREN", "expected '(' after while", parser_advance(pos)), LAMBDA lparen :
    Then(_expression(lparen.pos), LAMBDA condition :
    Then(_consume("RPAREN", "expected ')' after the condition", condition.pos), LAMBDA rparen :
    Then(_statement(rparen.pos), LAMBDA body :
    Ok(WhileStmt(condition.node, body.node), body.pos)))))

return_statement(pos) ==
    Then(IF ~parser_check({"SEMICOLON"}, parser_advance(pos))
         THEN _expression(parser_advance(pos))
         ELSE Ok(NoneNode, parser_advance(pos)), LAMBDA value :
    Then(_consume("SEMICOLON", "expected ';' after return", value.pos), LAMBDA semicolon :
    Ok(ReturnStmt(value.node), semicolon.pos)))

expression_statement(pos) ==
    Then(_expression(pos), LAMBDA expr :
    Then(_consume("SEMICOLON", "expected ';' after the expression", expr.pos),
         LAMBDA semicolon :
    Ok(ExprStmt(expr.node), semicolon.pos)))

_statement(pos) ==
    IF parser_check({"IF"}, pos) THEN if_statement(pos)
    ELSE IF parser_check({"WHILE"}, pos) THEN while_statement(pos)
    ELSE IF parser_check({"RETURN"}, pos) THEN return_statement(pos)
    ELSE IF parser_check({"LBRACE"}, pos) THEN _block(pos)
    ELSE expression_statement(pos)

_expression(pos) == _assignment(pos)

\* Mutant of _assignment: the value is a logical_or expression, not another
\* assignment.
_assignment_flat(pos) ==
    Then(binary_operand("assignment", pos), LAMBDA expr :
    IF ~parser_check({"ASSIGN"}, expr.pos) THEN expr
    ELSE IF expr.node.node # "Variable"
         THEN parser_error(parser_peek(expr.pos), "only a variable can be assigned",
                           <<>>, <<>>, parser_advance(expr.pos))
         ELSE Then(binary_operand("assignment", parser_advance(expr.pos)), LAMBDA value :
              Ok(Assign(expr.node.name, value.node), value.pos)))

_assignment(pos) ==
    Then(binary_operand("assignment", pos), LAMBDA expr :
    IF ~parser_check({"ASSIGN"}, expr.pos) THEN expr
    ELSE IF expr.node.node # "Variable"
         THEN parser_error(parser_peek(expr.pos), "only a variable can be assigned",
                           <<>>, <<>>, parser_advance(expr.pos))
         ELSE Then(_assignment(parser_advance(expr.pos)), LAMBDA value :
              Ok(Assign(expr.node.name, value.node), value.pos)))

\* Mutant of LevelTokens: + - and * / change places.
LevelTokens_swapped(level) ==
    CASE level = "logical_or" -> {"OR"}
      [] level = "logical_and" -> {"AND"}
      [] level = "equality" -> {"EQ", "NE"}
      [] level = "comparison" -> {"LT", "LE", "GT", "GE"}
      [] level = "term" -> {"STAR", "SLASH"}
      [] level = "factor" -> {"PLUS", "MINUS"}

\* The operators each binary level matches, and the text it gives them.
LevelTokens(level) ==
    CASE level = "logical_or" -> {"OR"}
      [] level = "logical_and" -> {"AND"}
      [] level = "equality" -> {"EQ", "NE"}
      [] level = "comparison" -> {"LT", "LE", "GT", "GE"}
      [] level = "term" -> {"PLUS", "MINUS"}
      [] level = "factor" -> {"STAR", "SLASH"}

operator_text(type) ==
    CASE type = "OR" -> "or"
      [] type = "AND" -> "and"
      [] type = "EQ" -> "=="
      [] type = "NE" -> "!="
      [] type = "LT" -> "<"
      [] type = "LE" -> "<="
      [] type = "GT" -> ">"
      [] type = "GE" -> ">="
      [] type = "PLUS" -> "+"
      [] type = "MINUS" -> "-"
      [] type = "STAR" -> "*"
      [] type = "SLASH" -> "/"

\* The while loop of a binary level: the expression so far, position reached.
binary_loop(level, left) ==
    Then(left, LAMBDA expr :
    IF ~parser_check(LevelTokens(level), expr.pos) THEN expr
    ELSE Then(binary_operand(level, parser_advance(expr.pos)), LAMBDA right :
         binary_loop(level, Ok(Binary(expr.node, operator_text(parser_peek(expr.pos).type),
                                      right.node), right.pos))))

_logical_or(pos) == binary_loop("logical_or", binary_operand("logical_or", pos))
_logical_and(pos) == binary_loop("logical_and", binary_operand("logical_and", pos))
_equality(pos) == binary_loop("equality", binary_operand("equality", pos))
_comparison(pos) == binary_loop("comparison", binary_operand("comparison", pos))
_term(pos) == binary_loop("term", binary_operand("term", pos))
_factor(pos) == binary_loop("factor", binary_operand("factor", pos))

\* The method each level calls for its operands.
binary_operand(level, pos) ==
    CASE level = "assignment" -> _logical_or(pos)
      [] level = "logical_or" -> _logical_and(pos)
      [] level = "logical_and" -> _equality(pos)
      [] level = "equality" -> _comparison(pos)
      [] level = "comparison" -> _term(pos)
      [] level = "term" -> _factor(pos)
      [] level = "factor" -> _unary(pos)

_unary(pos) ==
    IF parser_check({"NOT", "MINUS"}, pos)
    THEN Then(_unary(parser_advance(pos)), LAMBDA right :
         IF parser_peek(pos).type = "MINUS"
         THEN Ok(Binary(Literal(PyInt(0)), "-", right.node), right.pos)
         ELSE Ok(Unary("not", right.node), right.pos))
    ELSE _call(pos)

\* arguments.append(self._expression()) and the loop over commas.
call_arguments(arguments, pos) ==
    Then(_expression(pos), LAMBDA argument :
    IF parser_check({"COMMA"}, argument.pos)
    THEN call_arguments(Append(arguments, argument.node), parser_advance(argument.pos))
    ELSE Ok(Append(arguments, argument.node), argument.pos))

\* The while True loop of _call: the expression so far, position reached.
call_loop(expr) ==
    IF parser_check({"LPAREN"}, expr.pos)
    THEN Then(IF ~parser_check({"RPAREN"}, parser_advance(expr.pos))
              THEN call_arguments(<<>>, parser_advance(expr.pos))
              ELSE Ok(<<>>, parser_advance(expr.pos)), LAMBDA arguments :
         Then(_consume("RPAREN", "expected ')' after the arguments", arguments.pos),
              LAMBDA rparen :
         call_loop(Ok(Call(expr.node, arguments.node), rparen.pos))))
    ELSE IF parser_check({"DOT"}, expr.pos)
    THEN Then(_consume("IDENTIFIER", "expected a property name after '.'",
                       parser_advance(expr.pos)), LAMBDA name :
         call_loop(Ok(Get(expr.node, name.node.lexeme), name.pos)))
    ELSE expr

_call(pos) == Then(_primary(pos), LAMBDA expr : call_loop(expr))

_primary(pos) ==
    IF parser_check({"INTEGER"}, pos)
    THEN Ok(Literal(PyInt(int(parser_peek(pos).lexeme))), parser_advance(pos))
    ELSE IF parser_check({"FLOAT_LITERAL"}, pos)
    THEN Ok(Literal(float(parser_peek(pos).lexeme)), parser_advance(pos))
    ELSE IF parser_check({"STRING_LITERAL"}, pos)
    THEN Ok(Literal(PyStr(parser_peek(pos).lexeme)), parser_advance(pos))
    ELSE IF parser_check({"CHAR_LITERAL"}, pos)
    THEN Ok(Literal(PyStr(parser_peek(pos).lexeme)), parser_advance(pos))
    ELSE IF parser_check({"TRUE"}, pos) THEN Ok(Literal(PyBool(TRUE)), parser_advance(pos))
    ELSE IF parser_check({"FALSE"}, pos) THEN Ok(Literal(PyBool(FALSE)), parser_advance(pos))
    ELSE IF parser_check({"IDENTIFIER"}, pos)
    THEN Ok(Variable(parser_peek(pos).lexeme), parser_advance(pos))
    ELSE IF parser_check({"LPAREN"}, pos)
    THEN Then(_expression(parser_advance(pos)), LAMBDA expr :
         Then(_consume("RPAREN", "expected ')' after the expression", expr.pos),
              LAMBDA rparen :
         Ok(expr.node, rparen.pos)))
    ELSE parser_error(parser_peek(pos), "expected an expression", <<>>, <<>>, pos)

\* ---- parse, one action per step of its body --------------------------------

ParserOnly == UNCHANGED <<anaVars, lexVars>>

\* The exception r leaves parse.
parse_raise(r) ==
    /\ p_pc' = r.exc
    /\ p_error' = r.msg
    /\ p_current' = r.pos
    /\ UNCHANGED <<p_tokens, p_imports, p_main_func, p_result>>

\* One iteration of the loop over use-directives.
parse_use ==
    /\ p_pc = "imports"
    /\ parser_check({"USE"}, p_current)
    /\ LET r == Then(_consume("IDENTIFIER", "expected a module name after 'use'",
                              parser_advance(p_current)), LAMBDA module_token :
                Then(_consume("SEMICOLON", "expected ';' after the module name",
                              module_token.pos), LAMBDA semicolon :
                Ok(module_token.node, semicolon.pos)))
       IN IF r.exc # "" THEN parse_raise(r)
          ELSE /\ p_imports' = Append(p_imports, UseDecl(r.node.lexeme))
               /\ p_current' = r.pos
               /\ UNCHANGED <<p_pc, p_tokens, p_main_func, p_result, p_error>>
    /\ ParserOnly

\* main_func = self._function_decl(is_main=True)
parse_main ==
    /\ p_pc = "imports"
    /\ ~parser_check({"USE"}, p_current)
    /\ LET r == _function_decl(TRUE, p_current)
       IN IF r.exc # "" THEN parse_raise(r)
          ELSE /\ p_main_func' = r.node
               /\ p_current' = r.pos
               /\ p_pc' = "end"
               /\ UNCHANGED <<p_tokens, p_imports, p_result, p_error>>
    /\ ParserOnly

\* The check for the end of the input and the return.
parse_end ==
    /\ p_pc = "end"
    /\ IF ~parser_is_at_end(p_current)
       THEN parse_raise(parser_error(parser_peek(p_current),
                                     "expected the end of file after main()",
                                     <<>>, <<>>, p_current))
       ELSE /\ p_result' = Program(p_imports, p_main_func)
            /\ p_pc' = "returned"
            /\ UNCHANGED <<p_tokens, p_current, p_imports, p_main_func, p_error>>
    /\ ParserOnly

NextParser == parse_use \/ parse_main \/ parse_end

\* ---- token lists the lexer can produce ------------------------------------

Keyword(type) == Token(type, (CHOOSE k \in KEYWORDS : k[2] = type)[1], 1, 1)
Symbol(type, text) == Token(type, text, 1, 1)
Identifier(text) == Token("IDENTIFIER", text, 1, 1)
Integer(text) == Token("INTEGER", text, 1, 1)

tLPAREN == Symbol("LPAREN", <<"(">>)
tRPAREN == Symbol("RPAREN", <<")">>)
tLBRACE == Symbol("LBRACE", <<"{">>)
tRBRACE == Symbol("RBRACE", <<"}">>)
tDOT == Symbol("DOT", <<".">>)
tCOMMA == Symbol("COMMA", <<",">>)
tSEMICOLON == Symbol("SEMICOLON", <<";">>)
tASSIGN == Symbol("ASSIGN", <<"=">>)
tPLUS == Symbol("PLUS", <<"+">>)
tMINUS == Symbol("MINUS", <<"-">>)
tSTAR == Symbol("STAR", <<"*">>)
tSLASH == Symbol("SLASH", <<"/">>)
tEOF == Token("EOF", <<>>, 1, 1)

tA == Identifier(<<"a">>)
tB == Identifier(<<"b">>)
tC == Identifier(<<"c">>)
tD == Identifier(<<"d">>)
tF == Identifier(<<"f">>)
tX == Identifier(<<"x">>)
tOne == Integer(<<"1">>)
tFive == Integer(<<"5">>)
tFloat == Token("FLOAT_LITERAL", <<"2", ".", "5", "0">>, 1, 1)
tString == Token("STRING_LITERAL", <<"h", "i">>, 1, 1)
tChar == Token("CHAR_LITERAL", <<"c">>, 1, 1)

BinaryOperatorTokens ==
    {Keyword("OR"), Keyword("AND"), Symbol("EQ", <<"=", "=">>), Symbol("NE", <<"!", "=">>),
     Symbol("LT", <<"<">>), Symbol("LE", <<"<", "=">>), Symbol("GT", <<">">>),
     Symbol("GE", <<">", "=">>), tPLUS, tMINUS, tSTAR, tSLASH}

TypeKeywords == {Keyword(t) : t \in TypeTokens}

\* The i-th operand of a chain of operators: a, b, c, d.
OperandAt(i) == <<tA, tB, tC, tD>>[i]

\* a op b op c ... with n operators, binary or "=".
RECURSIVE Chains(_)
Chains(n) ==
    IF n = 0 THEN {<<OperandAt(1)>>}
    ELSE {chain \o <<op, OperandAt(n + 1)>> :
            chain \in Chains(n - 1), op \in BinaryOperatorTokens \cup {tASSIGN}}

ChainTokens == UNION {Chains(n) : n \in 0..MaxOps}

\* Expressions other than chains: prefixes, parentheses, calls, member access,
\* assignments to something that is not a variable, broken expressions.
OtherExpressionTokens ==
    {<<tFive>>, <<tFloat>>, <<tString>>, <<tChar>>, <<Keyword("TRUE")>>, <<Keyword("FALSE")>>,
     <<tMINUS, tFive>>, <<Keyword("NOT"), tA>>, <<tMINUS, tA, tSTAR, tB>>,
     <<Keyword("NOT"), Keyword("NOT"), tA>>,
     <<tLPAREN, tA, tPLUS, tB, tRPAREN, tSTAR, tC>>, <<tLPAREN, tA, tPLUS, tB>>,
     <<tF, tLPAREN, tRPAREN>>, <<tF, tLPAREN, tA, tRPAREN>>,
     <<tF, tLPAREN, tA, tCOMMA, tOne, tRPAREN>>, <<tF, tLPAREN, tA, tCOMMA, tRPAREN>>,
     <<tF, tLPAREN, tA>>, <<tA, tDOT, tB>>, <<tA, tDOT, tB, tLPAREN, tOne, tRPAREN>>,
     <<tA, tDOT>>, <<tA, tDOT, tB, tASSIGN, tOne>>, <<tOne, tASSIGN, tA>>,
     <<tF, tLPAREN, tRPAREN, tASSIGN, tA>>, <<tLPAREN, tA, tRPAREN, tASSIGN, tB>>,
     <<tA, tASSIGN>>, <<tA, tPLUS>>, <<tSTAR, tA>>, <<>>}

\* What follows the name of a declaration: nothing, or "=" and an expression.
InitializerTokens ==
    {<<>>} \cup
    {<<tASSIGN>> \o e : e \in {<<tFive>>, <<tFloat>>, <<tString>>, <<tChar>>,
                                 <<Keyword("TRUE")>>, <<tA>>, <<tOne, tPLUS, tFive>>,
                                 <<tMINUS, tFive>>, <<tF, tLPAREN, tRPAREN>>,
                                 <<tA, tASSIGN, tOne>>, <<tPLUS>>, <<>>}}

DeclarationTokens ==
    {<<type>> \o name \o init \o semicolon :
        type \in TypeKeywords, name \in {<<tX>>, <<>>},
        init \in InitializerTokens, semicolon \in {<<tSEMICOLON>>, <<>>}}

\* An identifier where a type is expected.
MisspeltTokens ==
    {<<Identifier(word)>> \o rest :
        word \in {<<"f", "l", "o", "o", "t">>, <<"I", "n", "t">>, <<"s", "t", "r", "i", "n">>,
                  <<"n", "u", "m", "b", "e", "r">>, <<"x">>, <<"b", "o", "l">>,
                  <<"i", "d">>, <<"V", "O", "D">>, <<"c", "h", "a", "r", "s">>},
        rest \in {<<tX, tSEMICOLON>>, <<tSEMICOLON>>, <<tX, tASSIGN, tOne, tSEMICOLON>>}}

SimpleStatementTokens ==
    {<<tA, tASSIGN, tOne, tSEMICOLON>>, <<Keyword("INT"), tX, tSEMICOLON>>,
     <<tF, tLPAREN, tRPAREN, tSEMICOLON>>, <<tLBRACE, tRBRACE>>, <<tA>>}

ControlTokens ==
    UNION {{<<Keyword("IF"), tLPAREN, tA, tRPAREN>> \o s,
            <<Keyword("IF"), tLPAREN, tA, tRPAREN>> \o s \o <<Keyword("ELSE")>> \o s,
            <<Keyword("IF"), tA, tRPAREN>> \o s,
            <<Keyword("IF"), tLPAREN, tRPAREN>> \o s,
            <<Keyword("WHILE"), tLPAREN, tA, tRPAREN>> \o s,
            <<Keyword("WHILE"), tLPAREN, tA>> \o s,
            <<tLBRACE>> \o s \o <<tRBRACE>>,
            <<tLBRACE>> \o s,
            s \o s} : s \in SimpleStatementTokens}
    \cup {<<Keyword("RETURN"), tSEMICOLON>>, <<Keyword("RETURN"), tA, tSEMICOLON>>,
          <<Keyword("RETURN"), tA>>, <<Keyword("RETURN")>>,
          <<Keyword("ELSE"), tA, tSEMICOLON>>}

StatementTokens ==
    {e \o semicolon : e \in ChainTokens \cup OtherExpressionTokens,
                      semicolon \in {<<tSEMICOLON>>}}
    \cup {<<tA, tPLUS, tB>>, <<tA, tASSIGN, tB>>}
    \cup DeclarationTokens \cup MisspeltTokens \cup ControlTokens

MainTokens(body) == <<Keyword("MAIN"), tLPAREN, tRPAREN, tLBRACE>> \o body \o <<tRBRACE>>

UseTokens == <<Keyword("USE"), Identifier(<<"m">>), tSEMICOLON>>

FunctionTokens ==
    <<Keyword("VOID"), Keyword("FUNCTION"), tF, tLPAREN, tRPAREN, tLBRACE, tRBRACE>>

ParameterFunctionTokens ==
    <<Keyword("INT"), Keyword("FUNCTION"), tF, tLPAREN, Keyword("INT"), tX, tRPAREN,
      tLBRACE, Keyword("RETURN"), tX, tSEMICOLON, tRBRACE>>

\* The pieces a token list is put together from at the top level.
TopLevelChunks ==
    {UseTokens, <<Keyword("USE"), tSEMICOLON>>, <<Keyword("USE"), Identifier(<<"m">>)>>,
     FunctionTokens, ParameterFunctionTokens,
     MainTokens(<<>>), MainTokens(<<tA, tASSIGN, tOne, tSEMICOLON>>),
     <<Keyword("MAIN"), tLPAREN, tRPAREN>>, <<tSEMICOLON>>}

RECURSIVE Flatten(_)
Flatten(chunks) == IF chunks = <<>> THEN <<>> ELSE Head(chunks) \o Flatten(Tail(chunks))

TokenLists ==
    {Flatten(chunks) \o <<tEOF>> : chunks \in SeqUpTo(TopLevelChunks, MaxChunks)}
    \cup {pre \o MainTokens(body) \o <<tEOF>> :
            pre \in {<<>>, UseTokens}, body \in StatementTokens}

InitParser ==
    /\ AnalyzerIdle
    /\ LexerIdle
    /\ p_pc = "imports"
    /\ p_tokens \in TokenLists
    /\ p_current = 0
    /\ p_imports = <<>>
    /\ p_main_func = NoneNode
    /\ p_result = NoneNode
    /\ p_error = NoMessage

SpecParser == InitParser /\ [][NextParser]_vars

\* ---- properties of the parser -----------------------------------------------

ParseDone == p_pc \in {"returned", "SyntaxError", "UnboundLocalError"}

\* The token lists whose main function has exactly the statements of body.
ProgramsOf(body) == {pre \o MainTokens(body) \o <<tEOF>> : pre \in {<<>>, UseTokens}}

\* The statements of main in the Program parse returned.
MainStatements == p_result.main_func.body.statements

\* Top-level pieces in the order of the grammar: imports, functions, main.
ChunkRank(chunk) ==
    IF chunk = UseTokens THEN 1
    ELSE IF chunk \in {FunctionTokens, ParameterFunctionTokens} THEN 2
    ELSE IF chunk \in {MainTokens(<<>>), MainTokens(<<tA, tASSIGN, tOne, tSEMICOLON>>)} THEN 3
    ELSE 0

\* Imports, then global functions, then exactly one main.
TopLevelShape(chunks) ==
    /\ Len(chunks) >= 1
    /\ ChunkRank(chunks[Len(chunks)]) = 3
    /\ \A i \in 1..(Len(chunks) - 1) : ChunkRank(chunks[i]) \in {1, 2}
    /\ \A i \in 1..(Len(chunks) - 1) : ChunkRank(chunks[i]) <= ChunkRank(chunks[i + 1])

TopLevelTokenLists ==
    {Flatten(chunks) \o <<tEOF>> : chunks \in SeqUpTo(TopLevelChunks, MaxChunks)}

ShapedTokenLists ==
    {Flatten(chunks) \o <<tEOF>> :
        chunks \in {c \in SeqUpTo(TopLevelChunks, MaxChunks) : TopLevelShape(c)}}

UseCount == Cardinality({i \in 1..Len(p_tokens) : p_tokens[i].type = "USE"})

\* C5: parse accepts exactly the token lists made of imports, then typed global
\* function declarations (with at most one typed parameter), then one main, then
\* the end of input, returning a Program with the imports and main; every other
\* token list raises SyntaxError.
C5_TopLevelGrammar ==
    ParseDone /\ p_tokens \in TopLevelTokenLists =>
        IF p_tokens \in ShapedTokenLists
        THEN /\ p_pc = "returned"
             /\ p_result.imports = [i \in 1..UseCount |-> UseDecl(<<"m">>)]
             /\ p_result.main_func.node = "FunctionDecl"
        ELSE p_pc = "SyntaxError"

\* The initializers that are expressions of the grammar, and their trees.
WellFormedInitializers ==
    {<< <<tFive>>, Literal(PyInt(5)) >>,
     << <<tFloat>>, Literal(PyFloat(25, 1)) >>,
     << <<tString>>, Literal(PyStr(<<"h", "i">>)) >>,
     << <<tChar>>, Literal(PyStr(<<"c">>)) >>,
     << <<Keyword("TRUE")>>, Literal(PyBool(TRUE)) >>,
     << <<tA>>, Variable(<<"a">>) >>,
     << <<tOne, tPLUS, tFive>>, Binary(Literal(PyInt(1)), "+", Literal(PyInt(5))) >>,
     << <<tMINUS, tFive>>, Binary(Literal(PyInt(0)), "-", Literal(PyInt(5))) >>,
     << <<tF, tLPAREN, tRPAREN>>, Call(Variable(<<"f">>), <<>>) >>,
     << <<tA, tASSIGN, tOne>>, Assign(<<"a">>, Literal(PyInt(1))) >>}

ValueTypes == {"INT", "FLOAT", "BOOL", "CHAR", "STRING_TYPE"}

\* C6: a declaration <type> <name> = <expr>; of a value type parses to the
\* VarDecl of that type, name and expression, and parsing a declaration has no
\* outcome other than a VarDecl or a SyntaxError.
C6_InitializedDeclarations ==
    /\ ParseDone /\ p_tokens \in UNION {ProgramsOf(d) : d \in DeclarationTokens} =>
          p_pc \in {"returned", "SyntaxError"}
    /\ \A type \in ValueTypes, w \in WellFormedInitializers :
          ParseDone /\ p_tokens \in ProgramsOf(<<Keyword(type), tX, tASSIGN>> \o w[1]
                                                \o <<tSEMICOLON>>) =>
              /\ p_pc = "returned"
              /\ MainStatements = <<VarDecl(type_value(type), <<"x">>, w[2])>>

\* The default literal of each value type.
DefaultLiteral ==
    [INT |-> Literal(PyInt(0)), FLOAT |-> Literal(PyFloat(0, 0)),
     BOOL |-> Literal(PyBool(FALSE)), CHAR |-> Literal(PyStr(<<NUL>>)),
     STRING_TYPE |-> Literal(PyStr(<<>>))]

\* <type> <name>; of a value type yields the VarDecl with the type's default.
DefaultInitializers ==
    \A type \in ValueTypes :
        ParseDone /\ p_tokens \in ProgramsOf(<<Keyword(type), tX, tSEMICOLON>>) =>
            /\ p_pc = "returned"
            /\ MainStatements = <<VarDecl(type_value(type), <<"x">>, DefaultLiteral[type])>>

\* void <name>; is a SyntaxError.
VoidWithoutInitializer ==
    ParseDone /\ p_tokens \in ProgramsOf(<<Keyword("VOID"), tX, tSEMICOLON>>) =>
        p_pc = "SyntaxError" /\ p_error.text = "type cannot be declared without an initializer"

\* void <name> = <expr>; is a SyntaxError.
VoidWithInitializer ==
    \A w \in WellFormedInitializers :
        ParseDone /\ p_tokens \in ProgramsOf(<<Keyword("VOID"), tX, tASSIGN>> \o w[1]
                                              \o <<tSEMICOLON>>) =>
            p_pc = "SyntaxError"

\* C7: a declaration without an initializer gets the default literal of its
\* type, and a declaration of type void, with or without an initializer, is a
\* SyntaxError.
C7_DefaultsAndVoid == DefaultInitializers /\ VoidWithoutInitializer /\ VoidWithInitializer

\* The tokens between the braces of main, for the token lists with one main.
MainBody ==
    IF \E i \in 1..Len(p_tokens) : p_tokens[i].type = "MAIN"
    THEN LET main == CHOOSE i \in 1..Len(p_tokens) : p_tokens[i].type = "MAIN"
         IN SubSeq(p_tokens, main + 4, Len(p_tokens) - 2)
    ELSE <<>>

\* The expression of the token list, when main holds one expression statement.
MainExpression == SubSeq(MainBody, 1, Len(MainBody) - 1)

ExpressionStatement ==
    /\ MainBody # <<>>
    /\ MainBody[Len(MainBody)] = tSEMICOLON
    /\ p_tokens \in ProgramsOf(MainBody)

\* The operators of a chain a op b op c ..., left to right.
ChainOperators(chain) == [i \in 1..(Len(chain) \div 2) |-> chain[2 * i]]

RECURSIVE RightNested(_)
\* a = b = ... = z as assignments nested to the right.
RightNested(chain) ==
    IF Len(chain) = 1 THEN Variable(chain[1].lexeme)
    ELSE Assign(chain[1].lexeme, RightNested(SubSeq(chain, 3, Len(chain))))

\* Chains of "=" only, with at least one.
AssignmentChains ==
    {chain \in ChainTokens :
        Len(chain) > 1 /\ \A i \in 1..(Len(chain) \div 2) : chain[2 * i] = tASSIGN}

\* Expressions with "=" after something that is not a variable: a literal, a
\* call, a member access, a binary expression.
BadTargets ==
    {<<tOne, tASSIGN, tA>>, <<tF, tLPAREN, tRPAREN, tASSIGN, tA>>,
     <<tA, tDOT, tB, tASSIGN, tOne>>}
    \cup {chain \in ChainTokens :
            \E i, j \in 1..(Len(chain) \div 2) :
                i < j /\ chain[2 * i] # tASSIGN /\ chain[2 * j] = tASSIGN}

\* C14: a = b = e parses to Assign(a, Assign(b, e)), and "=" after anything
\* other than a variable is a SyntaxError that leaves no tree.
C14_Assignment ==
    (ParseDone /\ ExpressionStatement) =>
        /\ MainExpression \in AssignmentChains =>
              /\ p_pc = "returned"
              /\ MainStatements = <<ExprStmt(RightNested(MainExpression))>>
        /\ MainExpression \in BadTargets =>
              /\ p_pc = "SyntaxError"
              /\ p_error.text = "only a variable can be assigned"
              /\ p_result = NoneNode

\* C14 witness: a = b = c was parsed.
C14_Witness ==
    /\ p_pc = "returned"
    /\ MainExpression = <<tA, tASSIGN, tB, tASSIGN, tC>>
    /\ MainStatements =
          <<ExprStmt(Assign(<<"a">>, Assign(<<"b">>, Variable(<<"c">>))))>>

\* The binding strength of a binary operator, loosest first.
Precedence(type) ==
    CASE type = "OR" -> 1
      [] type = "AND" -> 2
      [] type \in {"EQ", "NE"} -> 3
      [] type \in {"LT", "LE", "GT", "GE"} -> 4
      [] type \in {"PLUS", "MINUS"} -> 5
      [] type \in {"STAR", "SLASH"} -> 6

RECURSIVE Spelling(_)
\* The characters of a lexeme as one string.
Spelling(lexeme) == IF lexeme = <<>> THEN "" ELSE Head(lexeme) \o Spelling(Tail(lexeme))

RECURSIVE PrecedenceTree(_)
\* The tree of a chain of binary operators: split at the last of its loosest
\* operators.
PrecedenceTree(chain) ==
    IF Len(chain) = 1 THEN Variable(chain[1].lexeme)
    ELSE LET ops == {2 * i : i \in 1..(Len(chain) \div 2)}
             loosest == CHOOSE i \in ops :
                            \A j \in ops : Precedence(chain[i].type) <= Precedence(chain[j].type)
             split == CHOOSE i \in ops :
                          /\ Precedence(chain[i].type) = Precedence(chain[loosest].type)
                          /\ \A j \in ops :
                                Precedence(chain[j].type) = Precedence(chain[i].type) => j <= i
         IN Binary(PrecedenceTree(SubSeq(chain, 1, split - 1)),
                   Spelling(chain[split].lexeme),
                   PrecedenceTree(SubSeq(chain, split + 1, Len(chain))))

\* Chains of binary operators only, with at least one.
BinaryChains ==
    {chain \in ChainTokens :
        Len(chain) > 1 /\ \A i \in 1..(Len(chain) \div 2) : chain[2 * i] # tASSIGN}

RECURSIVE Distance(_, _, _)
\* The edit distance of a and b when it is at most k, and k + 1 otherwise.
Distance(a, b, k) ==
    IF a = <<>> THEN Min(Len(b), k + 1)
    ELSE IF b = <<>> THEN Min(Len(a), k + 1)
    ELSE IF Head(a) = Head(b) THEN Distance(Tail(a), Tail(b), k)
    ELSE IF k = 0 THEN 1
    ELSE 1 + Min(Distance(Tail(a), b, k - 1),
                 Min(Distance(a, Tail(b), k - 1), Distance(Tail(a), Tail(b), k - 1)))

Vocabulary ==
    << <<"i", "n", "t">>, <<"f", "l", "o", "a", "t">>, <<"b", "o", "o", "l">>,
       <<"c", "h", "a", "r">>, <<"s", "t", "r", "i", "n", "g">>, <<"v", "o", "i", "d">> >>

\* The distance of a word to the i-th word of the vocabulary, letter case
\* aside, when it is below 3, and 3 otherwise.
VocabularyDistance(word, i) == Distance(lower(word), Vocabulary[i], 2)

\* The first statement of main is an identifier followed by an identifier or ";".
IdentifierInTypePosition ==
    /\ \E pre \in {<<>>, UseTokens}, body \in StatementTokens :
          p_tokens = pre \o MainTokens(body) \o <<tEOF>>
    /\ Len(MainBody) >= 2
    /\ MainBody[1].type = "IDENTIFIER"
    /\ MainBody[2].type \in {"IDENTIFIER", "SEMICOLON"}

\* C16: an identifier followed by an identifier or ";" where a statement starts
\* is a SyntaxError for an unknown type; it suggests a word exactly when the
\* least distance to the vocabulary is below 3, and then the first word of the
\* vocabulary at that distance.
C16_UnknownType ==
    (ParseDone /\ IdentifierInTypePosition) =>
        LET word == MainBody[1].lexeme
            least == CHOOSE d \in 0..3 :
                        /\ \E i \in 1..Len(Vocabulary) : VocabularyDistance(word, i) = d
                        /\ \A i \in 1..Len(Vocabulary) : VocabularyDistance(word, i) >= d
            first == CHOOSE i \in 1..Len(Vocabulary) :
                        /\ VocabularyDistance(word, i) = least
                        /\ \A j \in 1..(i - 1) : VocabularyDistance(word, j) > least
        IN  /\ p_pc = "SyntaxError"
            /\ p_error.text = "unknown type"
            /\ p_error.found = word
            /\ p_error.hint # <<>> <=> least < 3
            /\ least < 3 => p_error.hint = Vocabulary[first]

\* C16 witness: id is as far from int as from void, and int was suggested.
C16_Witness ==
    /\ p_pc = "SyntaxError"
    /\ IdentifierInTypePosition
    /\ MainBody[1].lexeme = <<"i", "d">>
    /\ VocabularyDistance(<<"i", "d">>, 1) = 2
    /\ VocabularyDistance(<<"i", "d">>, 6) = 2
    /\ p_error.hint = <<"i", "n", "t">>

=============================================================================
